---- MODULE Spec2Model ----
(***************************************************************************)
(* A model of duwop: the DNS responder for the managed ".test" label       *)
(* (src/src/dns/mod.rs), the virtual-host dispatch of the HTTP front-end   *)
(* (src/src/web/mod.rs) and the service registry they read                 *)
(* (src/src/state.rs).                                                     *)
(*                                                                         *)
(* Strings whose characters matter (DNS names, Host headers, registry      *)
(* keys) are sequences of one-character strings, so that suffix tests,     *)
(* splitting and slicing are computed as the code computes them.           *)
(***************************************************************************)
EXTENDS Integers, Sequences, FiniteSets, TLC

\* ------------------------------------------------------------------------
\* Bounds of the model
\* ------------------------------------------------------------------------
MaxQuestions == 2
MaxOpcode == 1
MaxDatagrams == 3
MaxCalls == 2
MaxReloads == 2
MaxWords == 3
MaxLines == 3
MaxNames == 3
MaxConns == 2
MaxSslLines == 2
MaxSegments == 3
MaxProxyRequests == 2

\* connections or datagrams one listener serves
MaxAccepts == 1

\* HTTP connections whose handlers run at one time
MaxHandlers == 2

\* management connections that send Reload at one time
MaxReloaders == 2

\* commands the configuration client runs
MaxCommands == 2

\* log requests one management server handles
MaxLogRequests == 3

\* ------------------------------------------------------------------------
\* Character strings
\* ------------------------------------------------------------------------
UpperLetters ==
    <<"A","B","C","D","E","F","G","H","I","J","K","L","M",
      "N","O","P","Q","R","S","T","U","V","W","X","Y","Z">>

LowerLetters ==
    <<"a","b","c","d","e","f","g","h","i","j","k","l","m",
      "n","o","p","q","r","s","t","u","v","w","x","y","z">>

\* char::to_ascii_lowercase
LowerChar(c) ==
    IF \E i \in 1..Len(UpperLetters) : UpperLetters[i] = c
    THEN LowerLetters[CHOOSE i \in 1..Len(UpperLetters) : UpperLetters[i] = c]
    ELSE c

\* str::to_lowercase on the ASCII strings of the model
ToLower(s) == [i \in 1..Len(s) |-> LowerChar(s[i])]

\* str::ends_with
EndsWith(s, suffix) ==
    /\ Len(s) >= Len(suffix)
    /\ SubSeq(s, Len(s) - Len(suffix) + 1, Len(s)) = suffix

\* the literal ".test" of dns/mod.rs:77 and web/mod.rs:228
DotTest == <<".","t","e","s","t">>

\* ------------------------------------------------------------------------
\* DNS lookup (src/src/dns/mod.rs, fn lookup)
\* ------------------------------------------------------------------------
LOCALHOST == <<127, 0, 0, 1>>

\* the variants of QueryType matched exhaustively at dns/mod.rs:83-100
QueryTypes == {"A", "AAAA", "CNAME", "MX", "NS", "SOA", "UNKNOWN"}

\* DnsPacket::new(): empty sections, all flags clear, rescode NOERROR
DnsPacket_new ==
    [header |-> [id |-> 0, recursion_desired |-> FALSE, response |-> FALSE,
                 opcode |-> 0, rescode |-> "NOERROR"],
     questions |-> <<>>,
     answers |-> <<>>]

\* dns/mod.rs:52-55: the response starts as a fresh packet echoing id and RD
NewResponseZeroId(request) ==
    [DnsPacket_new EXCEPT !.header.response = TRUE,
                          !.header.id = 0,
                          !.header.recursion_desired = request.header.recursion_desired]

NewResponse(request) ==
    [DnsPacket_new EXCEPT !.header.response = TRUE,
                          !.header.id = request.header.id,
                          !.header.recursion_desired = request.header.recursion_desired]

\* dns/mod.rs:65-75: a response packet or a non-QUERY opcode is refused
RefusedHeaderIgnoresFlag(request) == request.header.opcode # 0

RefusedHeader(request) ==
    request.header.response \/ request.header.opcode # 0

\* dns/mod.rs:77: the managed-domain test on the first question's name
ManagedDomainAny(name) == TRUE

ManagedDomain(name) == EndsWith(name, DotTest)

\* dns/mod.rs:85-89: the A record pushed for a type A query
ARecordTtl60(query) ==
    [rtype |-> "A", addr |-> LOCALHOST, domain |-> query.name, ttl |-> 60]

ARecord(query) ==
    [rtype |-> "A", addr |-> LOCALHOST, domain |-> query.name, ttl |-> 0]

\* dns/mod.rs:83-100: the match on the query type
AnswerForTypeUnknownOk(response, query) ==
    CASE query.qtype = "A" ->
            [response EXCEPT !.answers = Append(@, ARecord(query))]
      [] query.qtype \in {"AAAA", "CNAME", "MX", "NS", "SOA"} ->
            [response EXCEPT !.header.rescode = "NOERROR"]
      [] OTHER ->
            [response EXCEPT !.header.rescode = "NOERROR"]

AnswerForType(response, query) ==
    CASE query.qtype = "A" ->
            [response EXCEPT !.answers = Append(@, ARecord(query))]
      [] query.qtype \in {"AAAA", "CNAME", "MX", "NS", "SOA"} ->
            [response EXCEPT !.header.rescode = "NOERROR"]
      [] OTHER ->
            [response EXCEPT !.header.rescode = "SERVFAIL"]

\* dns/mod.rs:49-103
lookup(request) ==
    LET response == NewResponse(request) IN
    IF request.questions = <<>>
    THEN [response EXCEPT !.header.rescode = "NOTIMP"]
    ELSE
        LET query == request.questions[1]
            echoed == [response EXCEPT !.questions = Append(@, query)]
        IN
        IF RefusedHeader(request)
        THEN [echoed EXCEPT !.header.rescode = "NOTIMP"]
        ELSE IF ~ManagedDomain(query.name)
        THEN [echoed EXCEPT !.header.rescode = "SERVFAIL"]
        ELSE AnswerForType(echoed, query)

\* ------------------------------------------------------------------------
\* Service registry entries (src/src/state.rs)
\* ------------------------------------------------------------------------
Digits == <<"0","1","2","3","4","5","6","7","8","9">>

IsDigit(c) == \E i \in 1..Len(Digits) : Digits[i] = c

DigitValue(c) == (CHOOSE i \in 1..Len(Digits) : Digits[i] = c) - 1

\* the positions of character c in s
Positions(s, c) == {i \in 1..Len(s) : s[i] = c}

SetMin(S) == CHOOSE x \in S : \A y \in S : x <= y

SetMax(S) == CHOOSE x \in S : \A y \in S : x >= y

RECURSIVE DecimalValue(_)
DecimalValue(s) ==
    IF s = <<>> THEN 0
    ELSE DecimalValue(SubSeq(s, 1, Len(s) - 1)) * 10 + DigitValue(s[Len(s)])

\* std::net::parser read_number(10, max_digits, upto): -1 stands for None
ReadNumber(s, maxDigits, upto) ==
    IF /\ Len(s) >= 1
       /\ Len(s) <= maxDigits
       /\ \A i \in 1..Len(s) : IsDigit(s[i])
       /\ DecimalValue(s) < upto
    THEN DecimalValue(s)
    ELSE -1

RECURSIVE SplitOn(_, _)
SplitOn(s, c) ==
    IF Positions(s, c) = {} THEN <<s>>
    ELSE LET i == SetMin(Positions(s, c))
         IN <<SubSeq(s, 1, i - 1)>> \o SplitOn(SubSeq(s, i + 1, Len(s)), c)

\* an IPv4 address in dotted-quad notation
IsIpv4(s) ==
    LET parts == SplitOn(s, ".") IN
    /\ Len(parts) = 4
    /\ \A i \in 1..4 : ReadNumber(parts[i], 3, 256) >= 0

\* SocketAddr::from_str on "<ipv4>:<port>": the port, or -1 for Err
SocketAddr_from_str(s) ==
    IF Positions(s, ":") = {} THEN -1
    ELSE LET i == SetMax(Positions(s, ":"))
         IN IF IsIpv4(SubSeq(s, 1, i - 1))
            THEN ReadNumber(SubSeq(s, i + 1, Len(s)), 5, 65536)
            ELSE -1

StaticFiles(path) == [kind |-> "StaticFiles", path |-> path]

ReverseProxy(ip, port) == [kind |-> "ReverseProxy", addr |-> [ip |-> ip, port |-> port]]

\* a message built by format!: the fixed text and the interpolated string
InvalidConfig(text, arg) ==
    [kind |-> "InvalidConfig", message |-> [text |-> text, arg |-> arg]]

\* state.rs:48-62 with the address kept as written
parse_proxy_KeepsHost(hasAddr, addr_str) ==
    IF ~hasAddr THEN InvalidConfig("missing socket address", <<>>)
    ELSE IF SocketAddr_from_str(addr_str) >= 0
         THEN ReverseProxy(SubSeq(addr_str, 1, SetMax(Positions(addr_str, ":")) - 1),
                           SocketAddr_from_str(addr_str))
         ELSE InvalidConfig("not a valid <host:port> address: {}", addr_str)

\* state.rs:48-62; hasAddr is false for None
parse_proxy(hasAddr, addr_str) ==
    IF ~hasAddr THEN InvalidConfig("missing socket address", <<>>)
    ELSE IF SocketAddr_from_str(addr_str) >= 0
         THEN ReverseProxy(LOCALHOST, SocketAddr_from_str(addr_str))
         ELSE InvalidConfig("not a valid <host:port> address: {}", addr_str)

\* state.rs:29-40: the directive is what precedes the first ':' of the line
parse_first_line(first_line) ==
    LET colons == Positions(first_line, ":")
        directive == IF colons = {} THEN first_line
                     ELSE SubSeq(first_line, 1, SetMin(colons) - 1)
        rest == IF colons = {} THEN <<>>
                ELSE SubSeq(first_line, SetMin(colons) + 1, Len(first_line))
    IN IF directive = <<"p","r","o","x","y">>
       THEN parse_proxy(colons # {}, rest)
       ELSE InvalidConfig("invalid directive: '{}'", directive)

\* state.rs:22-42 on a node of the state directory; ok is false for an
\* io::Error (the entry cannot be opened or read)
parse_config(node) ==
    CASE node.type = "dir" -> [ok |-> TRUE, service |-> StaticFiles(node.target)]
      [] node.type = "file" -> [ok |-> TRUE, service |-> parse_first_line(node.first_line)]
      [] OTHER -> [ok |-> FALSE, service |-> InvalidConfig("", <<>>)]

\* ------------------------------------------------------------------------
\* Configuration files (src/src/state.rs, fn read_first_line_from_file)
\* ------------------------------------------------------------------------
\* A file is the sequence of its characters; InvalidUtf8 stands for a byte
\* sequence that is not UTF-8.
InvalidUtf8 == "\\xff"

WhiteSpace == {" ", "\t", "\r", "\n"}

\* str::trim_end, state.rs:218
RECURSIVE trim_end(_)
trim_end(s) ==
    IF s # <<>> /\ s[Len(s)] \in WhiteSpace THEN trim_end(SubSeq(s, 1, Len(s) - 1))
    ELSE s

\* BufRead::read_line, state.rs:217: the characters up to and including the
\* first newline; an error when they are not UTF-8
read_line(content) ==
    LET ends == Positions(content, "\n")
        line == IF ends = {} THEN content ELSE SubSeq(content, 1, SetMin(ends))
    IN IF \E i \in 1..Len(line) : line[i] = InvalidUtf8
       THEN [ok |-> FALSE, line |-> <<>>]
       ELSE [ok |-> TRUE, line |-> line]

\* fn read_first_line_from_file, state.rs:213-219, on a file that opens
read_first_line_from_file(content) ==
    LET read == read_line(content)
    IN IF read.ok THEN [ok |-> TRUE, line |-> trim_end(read.line)] ELSE read

\* ServiceType::parse_config, state.rs:27-40, on a regular file that opens
parse_config_file(content) ==
    LET first_line == read_first_line_from_file(content)
    IN IF first_line.ok THEN [ok |-> TRUE, service |-> parse_first_line(first_line.line)]
       ELSE [ok |-> FALSE, service |-> InvalidConfig("", <<>>)]

\* the files of the model: a first line, its ending and what follows it
Text_proxy == <<"p", "r", "o", "x", "y">>
Text_127_0_0_1 == <<"1", "2", "7", ".", "0", ".", "0", ".", "1">>
Text_10_0_0_1 == <<"1", "0", ".", "0", ".", "0", ".", "1">>
Text_localhost == <<"l", "o", "c", "a", "l", "h", "o", "s", "t">>

FirstLines ==
    {Text_proxy \o <<":">> \o Text_127_0_0_1 \o <<":", "8", "0", "8", "0">>,
     Text_proxy \o <<":">> \o Text_10_0_0_1 \o <<":", "9", "9", "9", "9">>,
     Text_proxy \o <<":">> \o Text_10_0_0_1 \o <<":", "7", "0", "0", "0", "0">>,
     Text_proxy \o <<":">> \o Text_localhost,
     Text_proxy \o <<":">> \o Text_localhost \o <<":", "8", "0">>,
     Text_proxy \o <<":">>,
     Text_proxy,
     <<" ">> \o Text_proxy \o <<":">> \o Text_127_0_0_1 \o <<":", "8", "0">>,
     <<"w", "r", "o", "n", "g", ":", "s", "o", "m", "e", "t", "h", "i", "n", "g">>,
     <<>>,
     Text_proxy \o <<":">> \o Text_127_0_0_1 \o <<":", "8", "0", InvalidUtf8>>,
     <<InvalidUtf8>>}

LineEndings == {<<>>, <<"\n">>, <<"\r", "\n">>, <<" ", "\n">>}

LaterLines ==
    {<<>>, Text_proxy \o <<":">> \o Text_10_0_0_1 \o <<":", "1", "\n">>, <<"x">>, <<InvalidUtf8, "\n">>}

ConfigFiles ==
    {line \o ending \o (IF ending = <<>> THEN <<>> ELSE later) :
        line \in FirstLines, ending \in LineEndings, later \in LaterLines}

\* ------------------------------------------------------------------------
\* Supervisor (src/src/supervisor.rs)
\* ------------------------------------------------------------------------
\* the futures of the servers vector, supervisor.rs:38-48
Listeners == {"dns", "management", "http", "https"}

\* signal_hook::SIGTERM, signal_hook::SIGINT, supervisor.rs:49
TerminateSignals == {"SIGTERM", "SIGINT"}

\* futures::future::join_all, supervisor.rs:55: an error of one element is
\* the error of the join, the items of all of them its item
join_all(elems) ==
    IF \E l \in Listeners : elems[l] = "failed" THEN "err"
    ELSE IF \A l \in Listeners : elems[l] \in {"absent", "finished"} THEN "ok"
    ELSE "pending"

\* the elements the join holds after a poll: on an error it drops them all
join_all_elems(elems) ==
    IF join_all(elems) = "err"
    THEN [l \in Listeners |-> IF elems[l] = "running" THEN "dropped" ELSE elems[l]]
    ELSE elems

\* Signals::into_async().into_future(), supervisor.rs:49-54
trap(signal) == IF signal = "none" THEN "pending" ELSE "ok"

\* a race that never looks at the signal source
select2_JoinOnly(servers, trapped) == servers

\* servers.select2(trap).map_err(..).map(..), supervisor.rs:58-63: the
\* first of the two to complete completes the supervisor future
select2(servers, trapped) ==
    IF servers # "pending" THEN servers
    ELSE IF trapped # "pending" THEN "ok"
    ELSE "pending"

\* the listeners once the supervisor future is complete: what it held is
\* dropped with it
after_select2(elems, outcome) ==
    IF outcome = "pending" THEN elems
    ELSE [l \in Listeners |-> IF elems[l] = "running" THEN "dropped" ELSE elems[l]]

\* ------------------------------------------------------------------------
\* HTTP dispatch (src/src/web/mod.rs)
\* ------------------------------------------------------------------------
\* a byte outside visible ASCII, on which HeaderValue::to_str fails
NonAsciiChar == "~~"

\* the length of ".test" sliced off at web/mod.rs:229
TestSuffixLen == 5

HostOk(key) == [ok |-> TRUE, key |-> key]

HostErr == [ok |-> FALSE, key |-> <<>>]

\* web/mod.rs:227: host_header.split(':').nth(0)
BeforeColonKeepsPort(s) == s

BeforeColon(s) ==
    IF Positions(s, ":") = {} THEN s
    ELSE SubSeq(s, 1, SetMin(Positions(s, ":")) - 1)

\* web/mod.rs:220-233; a request is [hasHost, host, remote]
extract_host_NoSuffixCheck(req) ==
    IF ~req.hasHost THEN HostOk(<<>>)
    ELSE IF \E i \in 1..Len(req.host) : req.host[i] = NonAsciiChar THEN HostErr
    ELSE LET host == BeforeColon(req.host)
         IN IF Len(host) >= TestSuffixLen
            THEN HostOk(SubSeq(host, 1, Len(host) - TestSuffixLen))
            ELSE HostOk(host)

extract_host(req) ==
    IF ~req.hasHost THEN HostErr
    ELSE IF \E i \in 1..Len(req.host) : req.host[i] = NonAsciiChar THEN HostErr
    ELSE LET host == BeforeColon(req.host)
         IN IF EndsWith(host, DotTest)
            THEN HostOk(SubSeq(host, 1, Len(host) - TestSuffixLen))
            ELSE HostErr

NoBody == [text |-> "", arg |-> <<>>]

NoAddr == [ip |-> <<>>, port |-> 0]

\* errors.rs:7-15, 17-27, 29-38 and the futures built at web/mod.rs:205-214
ErrorResponse(status, body) ==
    [future |-> "ErrorResponse", status |-> status, body |-> body,
     root |-> "", target |-> NoAddr, remote |-> ""]

handle_404 == ErrorResponse(404, NoBody)

internal_server_error == ErrorResponse(500, NoBody)

displayed_error(message) == ErrorResponse(500, message)

StaticFuture(root) ==
    [future |-> "Static", status |-> 0, body |-> NoBody,
     root |-> root, target |-> NoAddr, remote |-> ""]

ProxyFuture(remote, addr) ==
    [future |-> "ReverseProxy", status |-> 0, body |-> NoBody,
     root |-> "", target |-> addr, remote |-> remote]

\* web/mod.rs:204-215: the match on the registry entry
DispatchInvalidAs404(service, req) ==
    CASE service.kind = "StaticFiles" -> StaticFuture(service.path)
      [] service.kind = "ReverseProxy" -> ProxyFuture(req.remote, service.addr)
      [] OTHER -> handle_404

Dispatch(service, req) ==
    CASE service.kind = "StaticFiles" -> StaticFuture(service.path)
      [] service.kind = "ReverseProxy" -> ProxyFuture(req.remote, service.addr)
      [] OTHER -> displayed_error(service.message)

\* web/mod.rs:190-217; registry is state.services, a map from keys to entries
call(registry, req) ==
    LET host == extract_host(req) IN
    IF ~host.ok THEN internal_server_error
    ELSE IF host.key \notin DOMAIN registry THEN handle_404
    ELSE Dispatch(registry[host.key], req)

\* ------------------------------------------------------------------------
\* The state directory and AppState::load_services (src/src/state.rs)
\* ------------------------------------------------------------------------
\* file names of the state directory: utf8 is false for a name that
\* OsString::into_string rejects
File_blog == [utf8 |-> TRUE, chars |-> <<"b","l","o","g">>]
File_Blog == [utf8 |-> TRUE, chars |-> <<"B","l","o","g">>]
File_raw  == [utf8 |-> FALSE, chars |-> <<"r","a","w">>]
File_a_b  == [utf8 |-> TRUE, chars |-> <<"a",".","b">>]

\* an order in which read_dir may yield the entries
DirOrder == <<File_blog, File_Blog, File_raw, File_a_b>>

FileNames == {DirOrder[i] : i \in 1..Len(DirOrder)}

\* read_dir promises no particular order: the arrangements the model tries
DirOrders ==
    {DirOrder, <<File_a_b, File_raw, File_Blog, File_blog>>}

Line_proxy_3000 ==
    <<"p","r","o","x","y",":","1","0",".","0",".","0",".","1",":","3","0","0","0">>
Line_bogus == <<"b","o","g","u","s">>

Absent == [type |-> "absent", target |-> "", first_line |-> <<>>]

DirNode(target) == [type |-> "dir", target |-> target, first_line |-> <<>>]

FileNode(first_line) == [type |-> "file", target |-> "", first_line |-> first_line]

Unreadable == [type |-> "unreadable", target |-> "", first_line |-> <<>>]

Nodes ==
    {DirNode("/srv/blog"), FileNode(Line_proxy_3000), FileNode(Line_bogus), Unreadable}

\* what the model puts under each name; the content of an entry whose name
\* is not Unicode is never looked at (state.rs:195-198)
NodesFor(name) ==
    IF name = File_blog THEN Nodes \cup {Absent}
    ELSE IF name = File_Blog THEN {DirNode("/srv/Blog"), Absent}
    ELSE IF name = File_a_b THEN {Unreadable, DirNode("/srv/ab"), Absent}
    ELSE {FileNode(Line_bogus), Absent}

NameError(name) == [kind |-> "NameError", name |-> name]

IoError(name) == [kind |-> "IoError", name |-> name]

\* state.rs:185-199: the names whose entry becomes a registry key
LoadedNames(dir) ==
    {n \in FileNames : dir[n] # Absent /\ n.utf8 /\ parse_config(dir[n]).ok}

\* state.rs:186-189: services.insert(key, service_type) for every such name
LoadedServices(dir) ==
    [key \in {n.chars : n \in LoadedNames(dir)} |->
        parse_config(dir[CHOOSE n \in LoadedNames(dir) : n.chars = key]).service]

\* state.rs:190-198: the diagnostics pushed while iterating the first i
\* entries in the order read_dir yields them
RECURSIVE LoadedErrorsSkipsIo(_, _, _)
LoadedErrorsSkipsIo(dir, order, i) ==
    IF i = 0 THEN <<>>
    ELSE LET n == order[i]
             before == LoadedErrorsSkipsIo(dir, order, i - 1)
         IN IF dir[n] = Absent THEN before
            ELSE IF ~n.utf8 THEN Append(before, NameError(n))
            ELSE before

RECURSIVE LoadedErrorsNameAsIo(_, _, _)
LoadedErrorsNameAsIo(dir, order, i) ==
    IF i = 0 THEN <<>>
    ELSE LET n == order[i]
             before == LoadedErrorsNameAsIo(dir, order, i - 1)
         IN IF dir[n] = Absent THEN before
            ELSE IF ~n.utf8 THEN Append(before, IoError(n))
            ELSE IF ~parse_config(dir[n]).ok THEN Append(before, IoError(n))
            ELSE before

RECURSIVE LoadedErrors(_, _, _)
LoadedErrors(dir, order, i) ==
    IF i = 0 THEN <<>>
    ELSE LET n == order[i]
             before == LoadedErrors(dir, order, i - 1)
         IN IF dir[n] = Absent THEN before
            ELSE IF ~n.utf8 THEN Append(before, NameError(n))
            ELSE IF ~parse_config(dir[n]).ok THEN Append(before, IoError(n))
            ELSE before

\* state.rs:203: self.services = services
PublishedServicesMerged(old, new) ==
    [key \in DOMAIN old \cup DOMAIN new |->
        IF key \in DOMAIN new THEN new[key] ELSE old[key]]

PublishedServices(old, new) == new

\* state.rs:202: self.errors = errors
PublishedErrorsAppended(old, new) == old \o new

PublishedErrors(old, new) == new

\* state.rs:171-206 on an AppState [services, errors]: status is "unreadable"
\* when read_dir fails (line 177-180) and "entry_error" when the iterator
\* yields an Err (line 182); both leave through `?` before lines 202-203
load_services_ClearsFirst(state, dir, order, status) ==
    IF status # "ok"
    THEN [ok |-> FALSE, services |-> [key \in {} |-> Absent], errors |-> <<>>]
    ELSE [ok |-> TRUE,
          services |-> PublishedServices(state.services, LoadedServices(dir)),
          errors |-> PublishedErrors(state.errors,
                                     LoadedErrors(dir, order, Len(order)))]

load_services(state, dir, order, status) ==
    IF status # "ok"
    THEN [ok |-> FALSE, services |-> state.services, errors |-> state.errors]
    ELSE [ok |-> TRUE,
          services |-> PublishedServices(state.services, LoadedServices(dir)),
          errors |-> PublishedErrors(state.errors,
                                     LoadedErrors(dir, order, Len(order)))]

EmptyRegistry == [key \in {} |-> Absent]

\* ------------------------------------------------------------------------
\* Inputs of the HTTP dispatch
\* ------------------------------------------------------------------------
Host_blog_test      == <<"b","l","o","g",".","t","e","s","t">>
Host_Blog_test      == <<"B","l","o","g",".","t","e","s","t">>
Host_BLOG_TEST      == <<"B","L","O","G",".","T","E","S","T">>
Host_blog_test_8080 == <<"b","l","o","g",".","t","e","s","t",":","8","0","8","0">>
Host_Blog_test_80   == <<"B","l","o","g",".","t","e","s","t",":","8","0">>
Host_api_test       == <<"a","p","i",".","t","e","s","t">>
Host_blog_com       == <<"b","l","o","g",".","c","o","m">>
Host_blog_com_80    == <<"b","l","o","g",".","c","o","m",":","8","0">>
Host_blog_test_dot  == <<"b","l","o","g",".","t","e","s","t",".">>
Host_dot_test       == <<".","t","e","s","t">>
Host_test           == <<"t","e","s","t">>
Host_port_only      == <<":","8","0">>
Host_nonascii       == <<"b", NonAsciiChar, "g",".","t","e","s","t">>

Hosts ==
    {Host_blog_test, Host_Blog_test, Host_BLOG_TEST, Host_blog_test_8080,
     Host_Blog_test_80, Host_api_test, Host_blog_com, Host_blog_com_80, Host_blog_test_dot,
     Host_dot_test, Host_test, Host_port_only, Host_nonascii}

RemoteAddr == "127.0.0.1:10000"

HttpRequests ==
    {[hasHost |-> FALSE, host |-> <<>>, remote |-> RemoteAddr]}
    \cup {[hasHost |-> TRUE, host |-> h, remote |-> RemoteAddr] : h \in Hosts}

NoRequest == [hasHost |-> FALSE, host |-> <<>>, remote |-> ""]

NoOutcome ==
    [future |-> "none", status |-> 0, body |-> NoBody,
     root |-> "", target |-> NoAddr, remote |-> ""]

\* ------------------------------------------------------------------------
\* Inputs of the lookup
\* ------------------------------------------------------------------------
Name_a_test       == <<"a",".","t","e","s","t">>
Name_sub_a_test   == <<"s",".","a",".","t","e","s","t">>
Name_A_TEST       == <<"A",".","T","E","S","T">>
Name_a_Test       == <<"a",".","T","e","s","t">>
Name_a_com        == <<"a",".","c","o","m">>
Name_test         == <<"t","e","s","t">>
Name_dot_test     == <<".","t","e","s","t">>
Name_a_test_dot   == <<"a",".","t","e","s","t",".">>
Name_a_testx      == <<"a",".","t","e","s","t","x">>

QueryNames ==
    {Name_a_test, Name_sub_a_test, Name_A_TEST, Name_a_Test, Name_a_com,
     Name_test, Name_dot_test, Name_a_test_dot, Name_a_testx}

DnsQuestions == [name : QueryNames, qtype : QueryTypes]

\* the questions that may follow the first one
TrailingQuestions ==
    {[name |-> Name_a_com, qtype |-> "MX"], [name |-> Name_a_test, qtype |-> "A"]}

RECURSIVE QuestionLists(_)
QuestionLists(n) ==
    IF n = 0 THEN {<<>>}
    ELSE IF n = 1 THEN {<<>>} \cup {<<q>> : q \in DnsQuestions}
    ELSE QuestionLists(n - 1)
         \cup {Append(qs, t) : qs \in {l \in QuestionLists(n - 1) : Len(l) = n - 1},
                               t \in TrailingQuestions}

RequestIds == {10, 1234}

DnsRequests ==
    {[DnsPacket_new EXCEPT !.header.id = i,
                           !.header.recursion_desired = rd,
                           !.header.response = qr,
                           !.header.opcode = op,
                           !.questions = qs] :
        i \in RequestIds, rd \in BOOLEAN, qr \in BOOLEAN,
        op \in 0..MaxOpcode, qs \in QuestionLists(MaxQuestions)}

\* ------------------------------------------------------------------------
\* Management protocol (src/src/management/mod.rs, impl Request)
\* ------------------------------------------------------------------------
Word_Reload    == <<"R","e","l","o","a","d">>
Word_Log       == <<"L","o","g">>
Word_reset     == <<"r","e","s","e","t">>
Word_debug     == <<"d","e","b","u","g">>
Word_trace     == <<"t","r","a","c","e">>
Word_custom    == <<"c","u","s","t","o","m">>
Word_Status    == <<"S","t","a","t","u","s">>
Word_ReloadSsl == <<"R","e","l","o","a","d","S","s","l">>
Word_more      == <<"m","o","r","e">>
Word_info      == <<"i","n","f","o",",">>

\* str::splitn(n, c): at most n pieces, the last one holding the rest
RECURSIVE SplitnUnbounded(_, _, _)
SplitnUnbounded(s, n, c) ==
    IF Positions(s, c) = {} THEN <<s>>
    ELSE LET i == SetMin(Positions(s, c))
         IN <<SubSeq(s, 1, i - 1)>> \o SplitnUnbounded(SubSeq(s, i + 1, Len(s)), n, c)

RECURSIVE Splitn(_, _, _)
Splitn(s, n, c) ==
    IF n <= 1 \/ Positions(s, c) = {} THEN <<s>>
    ELSE LET i == SetMin(Positions(s, c))
         IN <<SubSeq(s, 1, i - 1)>> \o Splitn(SubSeq(s, i + 1, Len(s)), n - 1, c)

\* the values of enum Request (management/mod.rs:28-43) and LogLevel
\* (management/mod.rs:47-56); level and value are empty where the variant
\* has none
Request(kind, level, value) == [kind |-> kind, level |-> level, value |-> value]

ReloadState == Request("ReloadState", "", <<>>)
ResetLogLevel == Request("ResetLogLevel", "", <<>>)
ServerStatus == Request("ServerStatus", "", <<>>)
ReloadSsl == Request("ReloadSsl", "", <<>>)
SetLogLevel_Debug == Request("SetLogLevel", "DebugLevel", <<>>)
SetLogLevel_Trace == Request("SetLogLevel", "TraceLevel", <<>>)
SetLogLevel_Custom(value) == Request("SetLogLevel", "CustomLevel", value)

NoParsedRequest == Request("", "", <<>>)

ParseOk(request) == [ok |-> TRUE, request |-> request, err |-> "", arg |-> <<>>]

\* Err(format!(err, arg))
ParseErr(err, arg) == [ok |-> FALSE, request |-> NoParsedRequest, err |-> err, arg |-> arg]

\* Request::parse, management/mod.rs:177-203
Request_parse(input) ==
    LET parts == Splitn(input, 3, " ")
        cmd == parts[1]
    IN IF cmd = Word_Reload
       THEN IF Len(parts) >= 2 THEN ParseErr("Reload doesn't take arguments", <<>>)
            ELSE ParseOk(ReloadState)
       ELSE IF cmd = Word_Log
       THEN IF Len(parts) < 2 THEN ParseErr("Log requires command", <<>>)
            ELSE IF parts[2] = Word_reset THEN ParseOk(ResetLogLevel)
            ELSE IF parts[2] = Word_debug THEN ParseOk(SetLogLevel_Debug)
            ELSE IF parts[2] = Word_trace THEN ParseOk(SetLogLevel_Trace)
            ELSE IF parts[2] = Word_custom
                 THEN IF Len(parts) >= 3 THEN ParseOk(SetLogLevel_Custom(parts[3]))
                      ELSE ParseErr("custom log level requires value", <<>>)
            ELSE ParseErr("invalid log command: {}", parts[2])
       ELSE IF cmd = Word_Status THEN ParseOk(ServerStatus)
       ELSE IF cmd = Word_ReloadSsl THEN ParseOk(ReloadSsl)
       ELSE ParseErr("invalid command: {}", cmd)

\* Request::serialize, management/mod.rs:205-217
Request_serialize(request) ==
    CASE request.kind = "ReloadState" -> Word_Reload
      [] request.kind = "SetLogLevel" /\ request.level = "DebugLevel" ->
            Word_Log \o <<" ">> \o Word_debug
      [] request.kind = "SetLogLevel" /\ request.level = "TraceLevel" ->
            Word_Log \o <<" ">> \o Word_trace
      [] request.kind = "SetLogLevel" /\ request.level = "CustomLevel" ->
            Word_Log \o <<" ">> \o Word_custom \o <<" ">> \o request.value
      [] request.kind = "ResetLogLevel" -> Word_Log \o <<" ">> \o Word_reset
      [] request.kind = "ServerStatus" -> Word_Status
      [] request.kind = "ReloadSsl" -> Word_ReloadSsl

\* ------------------------------------------------------------------------
\* Inputs of the management protocol
\* ------------------------------------------------------------------------
\* words joined by single spaces
RECURSIVE JoinWords(_)
JoinWords(ws) ==
    IF Len(ws) = 0 THEN <<>>
    ELSE IF Len(ws) = 1 THEN ws[1]
    ELSE ws[1] \o <<" ">> \o JoinWords(Tail(ws))

\* the empty word gives the empty line, leading, trailing and double spaces
LineWords ==
    {Word_Reload, Word_Log, Word_reset, Word_debug, Word_trace, Word_custom,
     Word_Status, Word_ReloadSsl, Word_more, <<>>}

RequestLines ==
    {JoinWords(ws) : ws \in UNION {[1..n -> LineWords] : n \in 1..MaxWords}}

ValueWords == {Word_debug, Word_info, Word_custom, <<>>}

\* the values of CustomLevel: newline-free, with and without spaces
CustomValues ==
    {JoinWords(ws) : ws \in UNION {[1..n -> ValueWords] : n \in 1..MaxWords}}

Requests ==
    {ReloadState, ResetLogLevel, ServerStatus, ReloadSsl, SetLogLevel_Debug,
     SetLogLevel_Trace}
    \cup {SetLogLevel_Custom(v) : v \in CustomValues}

\* ------------------------------------------------------------------------
\* Management responses and line framing (src/src/management/mod.rs)
\* ------------------------------------------------------------------------
\* the values of enum Response, management/mod.rs:60-69; a message is a
\* sequence of pieces of text
Response_Done == [kind |-> "Done", msg |-> <<>>]

Response_Ok(msg) == [kind |-> "Ok", msg |-> msg]

Response_Error(msg) == [kind |-> "Error", msg |-> msg]

NoResponse == [kind |-> "none", msg |-> <<>>]

\* Response::serialize, management/mod.rs:238-246
Response_serialize(response) ==
    CASE response.kind = "Done" -> <<"O","K">>
      [] response.kind = "Ok" -> <<"O","K",":"," ">> \o response.msg
      [] response.kind = "Error" -> <<"E","R","R","O","R"," ">> \o response.msg

\* management/mod.rs:120-122: the bytes handed to write_all
WireResponse(response) == Response_serialize(response) \o <<"\n">>

\* the message of the String a failed Request::parse returns
ErrMessage(result) == <<result.err>> \o result.arg

\* management/mod.rs:149
SslReplacementInitiated == <<"Ssl replacement initiated. Please check.">>

\* Server::handle_reload_ssl, management/mod.rs:142-150: a send of () on a
\* clone of the channel's Sender is spawned and the response is returned
\* without waiting for it
handle_reload_ssl_NoSend(spawned) ==
    [response |-> Response_Ok(SslReplacementInitiated), spawned |-> spawned]

handle_reload_ssl(spawned) ==
    [response |-> Response_Ok(SslReplacementInitiated), spawned |-> spawned + 1]

\* tokio::io::lines over the bytes received (management/mod.rs:101): the
\* first line without its "\n" (and without a "\r" before it), and the
\* bytes after it
ReadLineDropsRest(wire) ==
    LET i == SetMin(Positions(wire, "\n"))
        raw == SubSeq(wire, 1, i - 1)
    IN [line |-> IF Len(raw) > 0 /\ raw[Len(raw)] = "\r"
                 THEN SubSeq(raw, 1, Len(raw) - 1) ELSE raw,
        rest |-> <<>>]

ReadLine(wire) ==
    LET i == SetMin(Positions(wire, "\n"))
        raw == SubSeq(wire, 1, i - 1)
    IN [line |-> IF Len(raw) > 0 /\ raw[Len(raw)] = "\r"
                 THEN SubSeq(raw, 1, Len(raw) - 1) ELSE raw,
        rest |-> SubSeq(wire, i + 1, Len(wire))]

\* the log specifications handle_set_log_level asks for,
\* management/mod.rs:156-160
LogSpecFor(request, default) ==
    IF request.kind = "ResetLogLevel" THEN default
    ELSE IF request.level = "DebugLevel" THEN "duwop=debug"
    ELSE IF request.level = "TraceLevel" THEN "duwop=trace"
    ELSE request.value

\* Server.log_level, management/mod.rs:23: the level the process started with
DefaultLogSpec == "info"

\* the lines a management client sends in the model
Line_Status_more == Word_Status \o <<" ">> \o Word_more
Line_Log_custom_info == Word_Log \o <<" ">> \o Word_custom \o <<" ">> \o Word_info
Line_Reload_cr == Word_Reload \o <<"\r">>

SessionLines ==
    {Word_Reload, Word_Status, Word_ReloadSsl, Word_more, <<>>, Line_Status_more,
     Line_Log_custom_info, Line_Reload_cr}

\* ------------------------------------------------------------------------
\* Log level requests (src/src/management/mod.rs, fn handle_set_log_level)
\* ------------------------------------------------------------------------
Word_duwop == <<"d", "u", "w", "o", "p">>
Word_warn == <<"w", "a", "r", "n">>
Word_loud == <<"l", "o", "u", "d">>

Spec_duwop_debug == Word_duwop \o <<"=">> \o Word_debug
Spec_duwop_trace == Word_duwop \o <<"=">> \o Word_trace
Spec_duwop_info == Word_duwop \o <<"=", "i", "n", "f", "o">>

LevelNames ==
    {<<"o", "f", "f">>, <<"e", "r", "r", "o", "r">>, Word_warn, <<"i", "n", "f", "o">>,
     Word_debug, Word_trace}

\* LogSpecification::parse, called at management/mod.rs:157-159: a list of
\* level, module or module=level separated by commas; a part with a second
\* "=" or with a level that is no level name is an error
LogSpecification_parse(text) ==
    LET parts == SplitOn(text, ",")
    IN \A i \in 1..Len(parts) :
          LET pieces == SplitOn(parts[i], "=")
          IN /\ Len(pieces) <= 2
             /\ Len(pieces) = 2 => pieces[2] \in LevelNames

\* management/mod.rs:152-168 with the custom specification installed
\* before it is parsed
handle_set_log_level_Unchecked(level, handler) ==
    LET text == IF level.level = "DebugLevel" THEN Spec_duwop_debug
                ELSE IF level.level = "TraceLevel" THEN Spec_duwop_trace
                ELSE level.value
    IN IF LogSpecification_parse(text)
       THEN [handler |-> text, response |-> Response_Done]
       ELSE [handler |-> text,
             response |-> Response_Error(<<"error setting log level: {}", "<cause>">>)]

\* Server::handle_set_log_level, management/mod.rs:152-168
handle_set_log_level(level, handler) ==
    LET text == IF level.level = "DebugLevel" THEN Spec_duwop_debug
                ELSE IF level.level = "TraceLevel" THEN Spec_duwop_trace
                ELSE level.value
    IN IF LogSpecification_parse(text)
       THEN [handler |-> text, response |-> Response_Done]
       ELSE [handler |-> handler,
             response |-> Response_Error(<<"error setting log level: {}", "<cause>">>)]

\* the match of Server::run on a log request, management/mod.rs:110-115:
\* a reset is a custom level of the default the server was built with
handle_log_request(request, log_level, handler) ==
    IF request.kind = "ResetLogLevel"
    THEN handle_set_log_level(SetLogLevel_Custom(log_level), handler)
    ELSE handle_set_log_level(request, handler)

Line_Log_debug == Word_Log \o <<" ">> \o Word_debug
Line_Log_trace == Word_Log \o <<" ">> \o Word_trace
Line_Log_reset == Word_Log \o <<" ">> \o Word_reset
Line_Log_custom == Word_Log \o <<" ">> \o Word_custom

CustomSpecs ==
    {Word_warn, Spec_duwop_trace, Word_duwop \o <<"=">> \o Word_loud,
     Word_duwop \o <<"=">> \o Word_debug \o <<"=">> \o Word_trace,
     Word_warn \o <<",">> \o Spec_duwop_debug}

LogLines ==
    {Line_Log_debug, Line_Log_trace, Line_Log_reset}
        \cup {Line_Log_custom \o <<" ">> \o value : value \in CustomSpecs}

\* the defaults a server is built with: specifications that parse
DefaultSpecs == {Spec_duwop_info, Word_warn, <<"i", "n", "f", "o">>}

\* ------------------------------------------------------------------------
\* TLS leaf (src/src/ssl.rs, fn mk_ca_signed_cert)
\* ------------------------------------------------------------------------
\* the literal "duwop.test" of ssl.rs:127
DuwopTest == <<"d","u","w","o","p",".","t","e","s","t">>

\* ssl.rs:129-132: two DNS entries per name, in the order of the list
RECURSIVE SanEntries(_)
SanEntries(names) ==
    IF names = <<>> THEN <<>>
    ELSE <<Head(names) \o DotTest, <<"*", ".">> \o Head(names) \o DotTest>>
         \o SanEntries(Tail(names))

\* ssl.rs:124-135: the SubjectAlternativeName of the leaf
SubjectAltNamesNoDefault(dns_names_for_san) == SanEntries(dns_names_for_san)

SubjectAltNames(dns_names_for_san) ==
    IF dns_names_for_san = <<>> THEN <<DuwopTest>>
    ELSE SanEntries(dns_names_for_san)

\* the names the model asks a leaf for
Name_hello == <<"h","e","l","l","o">>
Name_world == <<"w","o","r","l","d">>

SanNames == {Name_hello, Name_world, File_blog.chars, File_a_b.chars}

NameLists == UNION {[1..n -> SanNames] : n \in 0..MaxNames}

\* ------------------------------------------------------------------------
\* TLS acceptor slot of the HTTPS front-end
\* ------------------------------------------------------------------------
\* a TLS acceptor: the certificate and the key it presents, each named by
\* the number of the leaf it comes from, and the names the certificate covers
Acceptor(leaf, san) == [cert |-> leaf, key |-> leaf, san |-> san]

NoAcceptor == [cert |-> -1, key |-> -1, san |-> <<>>]

\* the names of the registry in some order
KeyLists(registry) ==
    {names \in [1..Cardinality(DOMAIN registry) -> DOMAIN registry] :
        \A i, j \in DOMAIN names : i # j => names[i] # names[j]}

\* the swap of a new acceptor into the shared slot
SwapSlot(slot, acceptor) == acceptor

\* the lines a management client sends while the leaf is watched
TlsLines == {Word_ReloadSsl, Word_Reload}

\* ------------------------------------------------------------------------
\* Static files (src/src/web/static_files.rs)
\* ------------------------------------------------------------------------
\* A request path is a sequence of pieces: "/", "?" and file names. A
\* filesystem path is the sequence of its components below "/".

\* the filesystem the static server looks at: directories, files and one
\* symbolic link, /srv/blog/out -> /srv
FsDirs == {<<>>, <<"srv">>, <<"srv", "blog">>, <<"srv", "blog", "sub">>}

FsFiles ==
    {<<"srv", "blog", "index.html">>, <<"srv", "blog", "sub", "index.html">>,
     <<"srv", "secret.txt">>}

FsLinks == [p \in {<<"srv", "blog", "out">>} |-> <<"srv">>]

\* std::fs::canonicalize, static_files.rs:93: every component must exist,
\* ".." is taken after the components before it are resolved, a symbolic
\* link is replaced by its target
RECURSIVE Resolve(_, _)
Resolve(done, rest) ==
    IF rest = <<>> THEN [ok |-> TRUE, path |-> done]
    ELSE LET next == Append(done, Head(rest))
         IN IF Head(rest) = ".."
            THEN Resolve(IF done = <<>> THEN <<>> ELSE SubSeq(done, 1, Len(done) - 1),
                         Tail(rest))
            ELSE IF next \in FsDirs THEN Resolve(next, Tail(rest))
            ELSE IF next \in FsFiles
                 THEN IF Tail(rest) = <<>> THEN [ok |-> TRUE, path |-> next]
                      ELSE [ok |-> FALSE, path |-> <<>>]
            ELSE IF next \in DOMAIN FsLinks THEN Resolve(<<>>, FsLinks[next] \o Tail(rest))
            ELSE [ok |-> FALSE, path |-> <<>>]

canonicalize(path) == Resolve(<<>>, path)

\* the components of a path given as text: the names between the "/"
RECURSIVE Components(_)
Components(text) ==
    IF text = <<>> THEN <<>>
    ELSE IF Head(text) \in {"/", "."} THEN Components(Tail(text))
    ELSE <<Head(text)>> \o Components(Tail(text))

\* PathBuf::push, static_files.rs:85 and 90: an absolute argument replaces
\* the path
PathBuf_push(path, text) ==
    IF text # <<>> /\ Head(text) = "/" THEN Components(text)
    ELSE path \o Components(text)

\* Path::starts_with, static_files.rs:96: whole components
Path_starts_with(path, base) ==
    /\ Len(base) <= Len(path)
    /\ SubSeq(path, 1, Len(base)) = base

NoPath == [some |-> FALSE, path |-> <<>>]
SomePath(path) == [some |-> TRUE, path |-> path]

\* static_files.rs:81-91: the path handed to canonicalize
JoinedPath(request_path, root_dir) ==
    LET marks == Positions(request_path, "?")
        end == IF marks = {} THEN Len(request_path) ELSE SetMin(marks) - 1
        trimmed == SubSeq(request_path, 1, end)
        path == PathBuf_push(root_dir, SubSeq(trimmed, 2, Len(trimmed)))
    IN IF trimmed[Len(trimmed)] = "/" THEN PathBuf_push(path, <<"index.html">>)
       ELSE path

\* fn local_path_for_request, static_files.rs:74-108
local_path_for_request_NoRootCheck(request_path, root_dir) ==
    IF request_path = <<>> \/ Head(request_path) # "/" THEN NoPath
    ELSE LET pth == canonicalize(JoinedPath(request_path, root_dir))
         IN IF pth.ok THEN SomePath(pth.path) ELSE NoPath

local_path_for_request(request_path, root_dir) ==
    IF request_path = <<>> \/ Head(request_path) # "/" THEN NoPath
    ELSE LET pth == canonicalize(JoinedPath(request_path, root_dir))
         IN IF pth.ok
            THEN IF ~Path_starts_with(pth.path, root_dir) THEN NoPath
                 ELSE SomePath(pth.path)
            ELSE NoPath

\* fn serve, static_files.rs:17-29, up to the call of File::open: 404 when
\* there is no local path
serve_start_500(uri_path, root_dir) ==
    LET path == local_path_for_request(uri_path, root_dir)
    IN IF path.some THEN [phase |-> "opening", path |-> path, status |-> 0]
       ELSE [phase |-> "done", path |-> path, status |-> 500]

serve_start(uri_path, root_dir) ==
    LET path == local_path_for_request(uri_path, root_dir)
    IN IF path.some THEN [phase |-> "opening", path |-> path, status |-> 0]
       ELSE [phase |-> "done", path |-> path, status |-> 404]

\* the request paths of the model: up to MaxSegments names joined by "/",
\* with or without the leading "/", a trailing "/" and a query
Segments == {"", "..", "sub", "index.html", "out", "secret.txt", "srv"}

RECURSIVE JoinSegments(_)
JoinSegments(segs) ==
    IF segs = <<>> THEN <<>>
    ELSE (IF Head(segs) = "" THEN <<>> ELSE <<Head(segs)>>)
         \o (IF Len(segs) > 1 THEN <<"/">> ELSE <<>>) \o JoinSegments(Tail(segs))

RequestPaths ==
    {(IF lead THEN <<"/">> ELSE <<>>) \o JoinSegments(segs)
        \o (IF trail THEN <<"/">> ELSE <<>>) \o (IF query THEN <<"?", "x">> ELSE <<>>) :
        lead \in BOOLEAN, trail \in BOOLEAN, query \in BOOLEAN,
        segs \in UNION {[1..n -> Segments] : n \in 0..MaxSegments}}

\* state.rs:24-26: the root of a service is a canonical directory
RootDirs == {<<"srv", "blog">>, <<"srv", "blog", "sub">>}

\* ------------------------------------------------------------------------
\* Reverse proxy (src/src/web/reverse_proxy.rs)
\* ------------------------------------------------------------------------
\* u16::to_string, reverse_proxy.rs:63, and the port in the Display of a
\* SocketAddr, reverse_proxy.rs:47: the decimal digits
RECURSIVE ToDecimal(_)
ToDecimal(n) ==
    IF n < 10 THEN <<Digits[n + 1]>>
    ELSE ToDecimal(n \div 10) \o <<Digits[(n % 10) + 1]>>

\* Display of a SocketAddr (IPv4), reverse_proxy.rs:47 and 59
SocketAddrText(addr) == <<addr.ip, ":">> \o ToDecimal(addr.port)

\* reverse_proxy.rs:40-50: the text of the upstream URI
upstream_uri_NoQuery(target_host, path, query) ==
    <<"http://">> \o SocketAddrText(target_host) \o path

upstream_uri(target_host, path, query) ==
    LET query_part == IF query.some THEN <<"?">> \o query.text ELSE <<>>
    IN <<"http://">> \o SocketAddrText(target_host) \o path \o query_part

NoQuery == [some |-> FALSE, text |-> <<>>]
SomeQuery(text) == [some |-> TRUE, text |-> text]

\* upstream_uri.parse(), reverse_proxy.rs:55: the scheme, the authority up
\* to the first "/" or "?", the path up to the first "?", the query after it
Uri_parse(text) ==
    LET rest == Tail(text)
        stops == Positions(rest, "/") \cup Positions(rest, "?")
        authEnd == IF stops = {} THEN Len(rest) ELSE SetMin(stops) - 1
        tail == SubSeq(rest, authEnd + 1, Len(rest))
        marks == Positions(tail, "?")
        pathEnd == IF marks = {} THEN Len(tail) ELSE SetMin(marks) - 1
    IN [scheme |-> Head(text),
        authority |-> SubSeq(rest, 1, authEnd),
        path |-> SubSeq(tail, 1, pathEnd),
        query |-> IF marks = {} THEN NoQuery
                  ELSE SomeQuery(SubSeq(tail, pathEnd + 2, Len(tail)))]

\* HeaderMap: the values of each name, in the order they were added
headers_append(headers, name, value) == [headers EXCEPT ![name] = Append(@, value)]
headers_contains_key(headers, name) == headers[name] # <<>>
headers_insert(headers, name, value) == [headers EXCEPT ![name] = <<value>>]

\* ProxyHandler::serve, reverse_proxy.rs:40-64: the request given to the
\* client
proxy_request(req, remote_host, target_host) ==
    [method |-> req.method,
     uri |-> Uri_parse(upstream_uri(target_host, req.path, req.query)),
     headers |-> headers_append(
                    headers_append(req.headers, "x-forwarded-for", <<remote_host.ip>>),
                    "x-forwarded-port", ToDecimal(remote_host.port)),
     body |-> req.body]

\* reverse_proxy.rs:74-79
VersionText(version) ==
    CASE version = "HTTP_09" -> "0.9"
      [] version = "HTTP_10" -> "1.0"
      [] version = "HTTP_11" -> "1.1"
      [] version = "HTTP_2" -> "2.0"

\* reverse_proxy.rs:84-87: a Server header is put in only if there is none
with_server_Always(headers) == headers_insert(headers, "server", <<"duwop">>)

with_server(headers) ==
    IF ~headers_contains_key(headers, "server")
    THEN headers_insert(headers, "server", <<"duwop">>)
    ELSE headers

\* reverse_proxy.rs:73-89: the response given back for an upstream response
proxy_response(response) ==
    [response EXCEPT !.headers =
        with_server(headers_append(response.headers, "via",
                                   <<VersionText(response.version), " ", "duwop-proxy">>))]

\* reverse_proxy.rs:90-96 with errors.rs: the response for an upstream error
BadGateway ==
    [status |-> 502, version |-> "HTTP_11",
     headers |-> [n \in {"via", "server", "content-type"} |->
                    IF n = "content-type" THEN <<<<"text/plain; charset=utf-8">>>> ELSE <<>>],
     body |-> <<"Something went wrong, please try again later">>]

\* reverse_proxy.rs:90-98: an upstream error ends the handler future with
\* Ok(response), the response being the 502
on_upstream_error_Propagates(err) ==
    [future |-> "err",
     response |-> [status |-> 0, version |-> "",
                   headers |-> [n \in {"via", "server", "content-type"} |-> <<>>],
                   body |-> <<>>]]

on_upstream_error(err) == [future |-> "ok", response |-> BadGateway]

NoProxyRequest ==
    [method |-> "", path |-> <<>>, query |-> NoQuery,
     headers |-> [n \in {"host", "accept", "x-forwarded-for", "x-forwarded-port"} |-> <<>>],
     body |-> <<>>]

NoUpstreamRequest ==
    [method |-> "", uri |-> [scheme |-> "", authority |-> <<>>, path |-> <<>>, query |-> NoQuery],
     headers |-> [n \in {"host", "accept", "x-forwarded-for", "x-forwarded-port"} |-> <<>>],
     body |-> <<>>]

NoProxyResponse ==
    [status |-> 0, version |-> "", headers |-> [n \in {"via", "server", "content-type"} |-> <<>>],
     body |-> <<>>]

\* the requests, clients, targets and upstream responses of the model
ProxyRequests ==
    {[method |-> method, path |-> path, query |-> query,
      headers |-> [n \in {"host", "accept", "x-forwarded-for", "x-forwarded-port"} |->
                    CASE n = "host" -> <<<<"api", ".", "test">>>>
                      [] n = "accept" -> <<>>
                      [] n = "x-forwarded-for" -> xff
                      [] n = "x-forwarded-port" -> xfp],
      body |-> body] :
        method \in {"GET", "POST"},
        path \in {<<"/">>, <<"/", "x">>},
        query \in {NoQuery, SomeQuery(<<>>), SomeQuery(<<"q", "=", "1">>), SomeQuery(<<"a", "?", "b">>)},
        xff \in {<<>>, <<<<"10.0.0.1">>>>},
        xfp \in {<<>>, <<<<"4", "4", "3">>>>},
        body \in {<<>>, <<"data">>}}

RemoteHosts == {[ip |-> "127.0.0.1", port |-> 10000], [ip |-> "192.168.1.7", port |-> 80]}

\* state.rs:51: the target is always localhost with the port of the file
TargetHosts == {[ip |-> "127.0.0.1", port |-> 3000], [ip |-> "127.0.0.1", port |-> 65535]}

UpstreamResponses ==
    {[status |-> status, version |-> version,
      headers |-> [n \in {"via", "server", "content-type"} |->
                    CASE n = "via" -> via
                      [] n = "server" -> server
                      [] n = "content-type" -> <<<<"text/html">>>>],
      body |-> <<"body">>] :
        status \in {200, 404},
        version \in {"HTTP_09", "HTTP_10", "HTTP_11", "HTTP_2"},
        via \in {<<>>, <<<<"1.0", " ", "other">>>>},
        server \in {<<>>, <<<<"upstream">>>>}}

\* ------------------------------------------------------------------------
\* Configuration client (src/src/client/mod.rs, src/src/state.rs fn create)
\* ------------------------------------------------------------------------
\* the file create writes for a proxy, state.rs:82-88
ProxyFileContent(port) ==
    Text_proxy \o <<":">> \o Text_127_0_0_1 \o <<":">> \o ToDecimal(port)
        \o <<"\n", "# Note: the IP is currently ignored, only port is used.">>

\* the entry the state directory holds for a regular file of that content
FileWithContent(content) == FileNode(read_first_line_from_file(content).line)

\* state.rs:64-103 without the refusal to overwrite
create_Overwrites(service, dir, name) ==
    IF service.kind = "StaticFiles"
    THEN [ok |-> TRUE, dir |-> [dir EXCEPT ![name] = DirNode(service.path)]]
    ELSE IF service.kind = "ReverseProxy"
    THEN [ok |-> TRUE,
          dir |-> [dir EXCEPT ![name] = FileWithContent(ProxyFileContent(service.addr.port))]]
    ELSE [ok |-> FALSE, dir |-> dir]

\* ServiceType::create, state.rs:64-103: a symbolic link for StaticFiles,
\* a file for ReverseProxy; an existing path is refused
create(service, dir, name) ==
    IF dir[name] # Absent THEN [ok |-> FALSE, dir |-> dir]
    ELSE IF service.kind = "StaticFiles"
    THEN [ok |-> TRUE, dir |-> [dir EXCEPT ![name] = DirNode(service.path)]]
    ELSE IF service.kind = "ReverseProxy"
    THEN [ok |-> TRUE,
          dir |-> [dir EXCEPT ![name] = FileWithContent(ProxyFileContent(service.addr.port))]]
    ELSE [ok |-> FALSE, dir |-> dir]

\* std::fs::remove_file, client/mod.rs:115-118
remove_file(dir, name) ==
    IF dir[name] = Absent THEN [ok |-> FALSE, dir |-> dir]
    ELSE [ok |-> TRUE, dir |-> [dir EXCEPT ![name] = Absent]]

\* the part of link, proxy and delete that precedes the Reload:
\* client/mod.rs:58-67 with 69-92, 94-101, 103-121
change_state_dir(cmd, dir) ==
    IF cmd.op = "link"
    THEN IF cmd.source_exists THEN create(StaticFiles(cmd.source), dir, cmd.name)
         ELSE [ok |-> FALSE, dir |-> dir]
    ELSE IF cmd.op = "proxy" THEN create(ReverseProxy(LOCALHOST, cmd.port), dir, cmd.name)
    ELSE IF cmd.confirmed THEN remove_file(dir, cmd.name)
    ELSE [ok |-> FALSE, dir |-> dir]

Command(op, name, source, source_exists, port, confirmed) ==
    [op |-> op, name |-> name, source |-> source, source_exists |-> source_exists,
     port |-> port, confirmed |-> confirmed]

NoCommand == Command("none", File_blog, "", FALSE, 0, FALSE)

\* the commands of the model
Commands ==
    {Command("link", name, src[1], src[2], 0, FALSE) :
        name \in {File_blog, File_Blog}, src \in {<<"/srv/blog", TRUE>>, <<"/missing", FALSE>>}}
    \cup {Command("proxy", name, "", FALSE, port, FALSE) :
        name \in {File_blog, File_Blog}, port \in {80, 3000}}
    \cup {Command("delete", name, "", FALSE, 0, confirmed) :
        name \in {File_blog, File_Blog}, confirmed \in BOOLEAN}

\* ------------------------------------------------------------------------
\* State
\* ------------------------------------------------------------------------
VARIABLES
    lkPhase,        \* "idle" before lookup is applied, "answered" after
    lkRequest,      \* the request handed to lookup
    lkResponse,     \* the packet lookup returned
    dnsInbox,       \* datagrams queued on the UDP socket, oldest first
    dnsArrived,     \* number of datagrams that reached the socket
    dnsTaken,       \* datagrams poll_recv_from has handed to poll
    dnsSent,        \* responses poll_send_to has put on the wire, in order
    dnsStatus,      \* the DNSServer future: "running" or "failed"
    dnsErrorLogged, \* the supervisor's map_err closure has logged an error
    sendState,      \* what poll_send_to does now: "ready", "notready", "error"
    sendFailed,     \* poll_send_to has returned an error
    stateDir,       \* the state directory: file name -> node
    stateDirStatus, \* "ok", "unreadable" (read_dir fails) or "entry_error"
    dirOrder,       \* the order in which read_dir yields the entries now
    loadsSinceChange, \* successful loads since the directory last changed
    reloads,        \* number of Reload requests handled
    services,       \* AppState.services
    errors,         \* AppState.errors
    reloadReply,    \* the management response to the last Reload
    httpCalls,      \* number of requests MainService::call has served
    httpReq,        \* the last request handed to MainService::call
    httpOut,        \* the future MainService::call returned for it
    lockWriter,     \* a write guard of the RwLock<AppState> is held
    lockReaders,    \* number of read guards of the RwLock<AppState> held
    reloadPc,       \* where the management handler is in a Reload
    lastLoad,       \* what the last scan of load_services built
    published,      \* the AppState as of the last release of the write guard
    callPc,         \* where MainService::call is: "idle" or "locked"
    mgPhase,        \* "idle", "request" (a Request to serialize), "line" or "parsed"
    mgRequest,      \* the Request the client serializes
    mgLine,         \* the request line
    mgResult,       \* what Request::parse returned for the line
    sessWire,       \* bytes the client has written that the server has not read yet
    sessLines,      \* the request lines the client has sent, in order
    sessWriting,    \* the response write_all is writing now, or NoResponse
    sessOut,        \* the responses written to the connection, in order
    logSpec,        \* the log specification in force
    sslSpawned,     \* spawned sends of a ReloadSsl notification not polled yet
    leafPhase,      \* "idle", "asked" (names given) or "minted"
    leafNames,      \* dns_names_for_san, the list handed to mk_ca_signed_cert
    leafSan,        \* the DNS entries of the SubjectAlternativeName of the leaf
    httpsEnabled,   \* the supervisor was given an HTTPS server
    sslChannel,     \* notifications queued in the channel to the HTTPS server
    sslSendErrors,  \* sends that failed because the receiver is gone
    tlsSlot,        \* the acceptor in the shared slot
    tlsPending,     \* the acceptor the reloader has built and not swapped in yet
    tlsMinted,      \* number of leaves swapped in since startup
    tlsConns,       \* the acceptor each accepted HTTPS connection was accepted with
    tls_acceptor,   \* the acceptor the accept loop holds
    stRequest,      \* the path of the request served from a directory
    stRoot,         \* the root directory of the service
    stPhase,        \* where serve is: asked, opening, reading, done
    stPath,         \* the local path found for the request, if any
    stOpen,         \* the result of File::open: none, ok, failed
    stStatus,       \* the status of the response, 0 while there is none, -1 for an error without a response
    pxPhase,        \* where the proxy handler is: idle, asked, forwarded, done
    pxReq,          \* the incoming request
    pxRemote,       \* the address of the client
    pxTarget,       \* the address of the upstream server
    pxUpstream,     \* the request given to the client for the upstream server
    pxUpResp,       \* the response of the upstream server
    pxOut,          \* the response of the handler
    pxFuture,       \* the handler future: pending, ok, err
    pxConn,         \* the task serving the connection: open, closed
    pxServed,       \* requests answered on the connection
    pxFailures,     \* upstream errors met on the connection
    cfContent,      \* the content of a regular file of the state directory
    cfPhase,        \* idle, written, parsed
    cfResult,       \* what parse_config returned for the file
    svListeners,    \* each listener future: absent, running, failed, dropped
    svAccepted,     \* connections or datagrams each listener has served
    svSignal,       \* the terminate signal delivered, or none
    svFuture,       \* the supervisor future: pending, ok, err
    lgDefault,      \* Server.log_level: the default the server was built with
    lgHandler,      \* the specification the log handler has in force
    lgLine,         \* the last log request line handled
    lgReply,        \* the response to it
    lgCount,        \* the log requests handled
    scPhase,        \* each handler: idle, lookup, canonicalize, built, open, read, upstream, done
    scService,      \* the kind of entry each handler found
    scFound,        \* whether canonicalize found the file of each handler
    scReaders,      \* the handlers that hold a read guard of the registry lock
    scWriter,       \* the reload: none, waiting, held
    rrPc,           \* each management connection: idle, requested, locked, scanning, scanned, done
    rrBuilt,        \* what the last scan of each connection built
    rrLast,         \* the connection that acquired the write lock last, 0 for none
    ctlPc,          \* the client: idle, change, reload
    ctlCmd,         \* the command it runs
    ctlBefore,      \* the state directory when the command started
    ctlSent,        \* the Reload requests the client has sent
    ctlResult,      \* what the last command returned: none, ok, err
    ctlCount        \* the commands started

lookupVars == <<lkPhase, lkRequest, lkResponse>>

responderVars ==
    <<dnsInbox, dnsArrived, dnsTaken, dnsSent, dnsStatus, dnsErrorLogged,
      sendState, sendFailed>>

registryVars ==
    <<stateDir, stateDirStatus, dirOrder, loadsSinceChange, reloads, services, errors,
      reloadReply>>

httpVars == <<httpCalls, httpReq, httpOut>>

lockVars == <<lockWriter, lockReaders, reloadPc, lastLoad, published, callPc>>

protocolVars == <<mgPhase, mgRequest, mgLine, mgResult>>

sessionVars == <<sessWire, sessLines, sessWriting, sessOut, logSpec, sslSpawned>>

leafVars == <<leafPhase, leafNames, leafSan>>

tlsVars ==
    <<httpsEnabled,
      sslChannel,
      sslSendErrors,
      tlsSlot,
      tlsPending,
      tlsMinted,
      tlsConns, tls_acceptor>>

staticVars == <<stRequest, stRoot, stPhase, stPath, stOpen, stStatus>>

proxyVars ==
    <<pxPhase, pxReq, pxRemote, pxTarget, pxUpstream, pxUpResp, pxOut, pxFuture,
      pxConn, pxServed, pxFailures>>

configVars == <<cfContent, cfPhase, cfResult>>

supervisorVars == <<svListeners, svAccepted, svSignal, svFuture>>

logVars == <<lgDefault, lgHandler, lgLine, lgReply, lgCount>>

scopeVars == <<scPhase, scService, scFound, scReaders, scWriter>>

reloadsVars == <<rrPc, rrBuilt, rrLast>>

ctlVars == <<ctlPc, ctlCmd, ctlBefore, ctlSent, ctlResult, ctlCount>>

vars ==
    <<lookupVars, responderVars, registryVars, httpVars,
      lockVars, protocolVars, sessionVars, leafVars,
      tlsVars, staticVars, proxyVars, configVars,
      supervisorVars, logVars, scopeVars, reloadsVars,
      ctlVars>>

\* the state of each component right after construction
LookupIdle ==
    /\ lkPhase = "idle"
    /\ lkRequest = DnsPacket_new
    /\ lkResponse = DnsPacket_new

\* DNSServer::new, dns/mod.rs:19-23: a bound socket and nothing else
ResponderStarted ==
    /\ dnsInbox = <<>>
    /\ dnsArrived = 0
    /\ dnsTaken = {}
    /\ dnsSent = <<>>
    /\ dnsStatus = "running"
    /\ dnsErrorLogged = FALSE
    /\ sendState = "ready"
    /\ sendFailed = FALSE

\* AppState::new, state.rs:153-159, and the first load of an empty state
\* directory
RegistryEmpty ==
    /\ stateDir = [n \in FileNames |-> Absent]
    /\ stateDirStatus = "ok"
    /\ dirOrder = DirOrder
    /\ loadsSinceChange = 1
    /\ reloads = 0
    /\ services = EmptyRegistry
    /\ errors = <<>>
    /\ reloadReply = "none"

HttpIdle ==
    /\ httpCalls = 0
    /\ httpReq = NoRequest
    /\ httpOut = NoOutcome

\* Arc::new(RwLock::new(app_state)), bin/duwop.rs:129: nobody holds a guard
LockFree ==
    /\ lockWriter = FALSE
    /\ lockReaders = 0
    /\ reloadPc = "idle"
    /\ lastLoad = [ok |-> TRUE, services |-> EmptyRegistry, errors |-> <<>>]
    /\ published = [services |-> EmptyRegistry, errors |-> <<>>]
    /\ callPc = "idle"

\* no request line has been read
ProtocolIdle ==
    /\ mgPhase = "idle"
    /\ mgRequest = NoParsedRequest
    /\ mgLine = <<>>
    /\ mgResult = ParseErr("", <<>>)

\* management/mod.rs:99-102: a connection has been accepted, nothing read
SessionOpen ==
    /\ sessWire = <<>>
    /\ sessLines = <<>>
    /\ sessWriting = NoResponse
    /\ sessOut = <<>>
    /\ logSpec = DefaultLogSpec
    /\ sslSpawned = 0

\* mk_ca_signed_cert has not been called
LeafIdle ==
    /\ leafPhase = "idle"
    /\ leafNames = <<>>
    /\ leafSan = <<>>

\* supervisor.rs:37-48: the channel is empty; the slot holds the leaf minted
\* at startup for the registry of that time
TlsStarted ==
    /\ httpsEnabled = TRUE
    /\ sslChannel = 0
    /\ sslSendErrors = 0
    /\ tlsSlot = Acceptor(0, SubjectAltNames(<<>>))
    /\ tlsPending = NoAcceptor
    /\ tlsMinted = 0
    /\ tlsConns = <<>>
    /\ tls_acceptor = Acceptor(0, SubjectAltNames(<<>>))

\* no request for a static file has been made
StaticIdle ==
    /\ stRequest = <<>>
    /\ stRoot = <<>>
    /\ stPhase = "idle"
    /\ stPath = NoPath
    /\ stOpen = "none"
    /\ stStatus = 0

\* no request has been dispatched to a reverse proxy
ProxyIdle ==
    /\ pxPhase = "idle"
    /\ pxReq = NoProxyRequest
    /\ pxRemote = [ip |-> "", port |-> 0]
    /\ pxTarget = [ip |-> "", port |-> 0]
    /\ pxUpstream = NoUpstreamRequest
    /\ pxUpResp = NoProxyResponse
    /\ pxOut = NoProxyResponse
    /\ pxFuture = "pending"
    /\ pxConn = "open"
    /\ pxServed = 0
    /\ pxFailures = 0

\* no configuration file has been parsed
ConfigIdle ==
    /\ cfContent = <<>>
    /\ cfPhase = "idle"
    /\ cfResult = [ok |-> FALSE, service |-> InvalidConfig("", <<>>)]

\* no supervisor future has been built
SupervisorIdle ==
    /\ svListeners = [l \in Listeners |-> "absent"]
    /\ svAccepted = [l \in Listeners |-> 0]
    /\ svSignal = "none"
    /\ svFuture = "pending"

\* no log request has been handled
LogIdle ==
    /\ lgDefault = <<>>
    /\ lgHandler = <<>>
    /\ lgLine = <<>>
    /\ lgReply = NoResponse
    /\ lgCount = 0

\* no handler runs and no reload waits
ScopeIdle ==
    /\ scPhase = [h \in 1..MaxHandlers |-> "idle"]
    /\ scService = [h \in 1..MaxHandlers |-> "None"]
    /\ scFound = [h \in 1..MaxHandlers |-> FALSE]
    /\ scReaders = {}
    /\ scWriter = "none"

\* no connection has sent Reload
ReloadsIdle ==
    /\ rrPc = [c \in 1..MaxReloaders |-> "idle"]
    /\ rrBuilt = [c \in 1..MaxReloaders |-> [ok |-> FALSE, services |-> EmptyRegistry, errors |-> <<>>]]
    /\ rrLast = 0

\* the configuration client has run no command
CtlIdle ==
    /\ ctlPc = "idle"
    /\ ctlCmd = NoCommand
    /\ ctlBefore = [n \in FileNames |-> Absent]
    /\ ctlSent = 0
    /\ ctlResult = "none"
    /\ ctlCount = 0

\* ------------------------------------------------------------------------
\* Specification of the lookup on its own: one request, one call
\* ------------------------------------------------------------------------
InitLookup ==
    /\ lkPhase = "idle"
    /\ lkRequest \in DnsRequests
    /\ lkResponse = DnsPacket_new
    /\ ResponderStarted
    /\ RegistryEmpty
    /\ HttpIdle
    /\ LockFree
    /\ ProtocolIdle
    /\ SessionOpen
    /\ LeafIdle
    /\ TlsStarted
    /\ StaticIdle
    /\ ProxyIdle
    /\ ConfigIdle
    /\ SupervisorIdle
    /\ LogIdle
    /\ ScopeIdle
    /\ ReloadsIdle
    /\ CtlIdle

CallLookup ==
    /\ lkPhase = "idle"
    /\ lkPhase' = "answered"
    /\ lkResponse' = lookup(lkRequest)
    /\ UNCHANGED lkRequest
    /\ UNCHANGED <<responderVars, registryVars, httpVars, lockVars, protocolVars, sessionVars, leafVars, tlsVars, staticVars, proxyVars, configVars, supervisorVars, logVars, scopeVars, reloadsVars, ctlVars>>

NextLookup == CallLookup

SpecLookup == InitLookup /\ [][NextLookup]_vars

\* ------------------------------------------------------------------------
\* The DNS responder task (src/src/dns/mod.rs, impl Future for DNSServer)
\* ------------------------------------------------------------------------
Peers == {"peer1", "peer2"}

Query_a_test ==
    [DnsPacket_new EXCEPT !.header.id = 10,
                          !.questions = <<[name |-> Name_a_test, qtype |-> "A"]>>]

Query_a_com ==
    [DnsPacket_new EXCEPT !.header.id = 1234,
                          !.header.recursion_desired = TRUE,
                          !.questions = <<[name |-> Name_a_com, qtype |-> "A"]>>]

\* What a datagram's bytes amount to: parses says whether
\* DnsPacket::from_buffer returns Ok, packet is what it returns then, and
\* fits says whether the response can be written into the response buffer.
Payloads ==
    {[parses |-> FALSE, packet |-> DnsPacket_new, fits |-> FALSE],
     [parses |-> TRUE, packet |-> DnsPacket_new, fits |-> TRUE],
     [parses |-> TRUE, packet |-> Query_a_test, fits |-> TRUE],
     [parses |-> TRUE, packet |-> Query_a_test, fits |-> FALSE],
     [parses |-> TRUE, packet |-> Query_a_com, fits |-> TRUE]}

\* a datagram reaches the bound socket
DatagramArrives(peer, payload) ==
    /\ dnsStatus = "running"
    /\ dnsArrived < MaxDatagrams
    /\ dnsArrived' = dnsArrived + 1
    /\ dnsInbox' = Append(dnsInbox,
                          [seq |-> dnsArrived + 1, peer |-> peer, payload |-> payload])
    /\ UNCHANGED <<dnsTaken, dnsSent, dnsStatus, dnsErrorLogged, sendState, sendFailed>>
    /\ UNCHANGED <<lookupVars, registryVars, httpVars, lockVars, protocolVars, sessionVars, leafVars, tlsVars, staticVars, proxyVars, configVars, supervisorVars, logVars, scopeVars, reloadsVars, ctlVars>>

\* the kernel's send buffer fills or drains, or the socket breaks
SocketSendChanges(s) ==
    /\ dnsStatus = "running"
    /\ s # sendState
    /\ sendState' = s
    /\ UNCHANGED <<dnsInbox, dnsArrived, dnsTaken, dnsSent, dnsStatus,
                   dnsErrorLogged, sendFailed>>
    /\ UNCHANGED <<lookupVars, registryVars, httpVars, lockVars, protocolVars, sessionVars, leafVars, tlsVars, staticVars, proxyVars, configVars, supervisorVars, logVars, scopeVars, reloadsVars, ctlVars>>

\* dns/mod.rs:34,39,41 with supervisor.rs:40-41: an Err leaves poll through
\* `?` or try_ready!, the future is finished and map_err logs the error
PollFails ==
    /\ dnsStatus' = "failed"
    /\ dnsErrorLogged' = TRUE

\* dns/mod.rs:42 when poll_send_to is not ready: try_ready! returns NotReady
\* from poll; request, response and to_send are locals of the loop body, so
\* the next call of poll starts again at poll_recv_from
SendNotReady(d) ==
    /\ dnsInbox' = Tail(dnsInbox)
    /\ dnsTaken' = dnsTaken \cup {d}
    /\ UNCHANGED <<dnsSent, dnsStatus, dnsErrorLogged, sendFailed>>

\* dns/mod.rs:30-46: one turn of the loop in DNSServer::poll.  A turn with an
\* empty socket returns NotReady at line 33 and changes nothing.
DNSServer_poll ==
    /\ dnsStatus = "running"
    /\ dnsInbox # <<>>
    /\ LET d == Head(dnsInbox) IN
       IF ~d.payload.parses \/ ~d.payload.fits
       THEN \* line 34 or lines 39-41
            /\ dnsInbox' = Tail(dnsInbox)
            /\ dnsTaken' = dnsTaken \cup {d}
            /\ PollFails
            /\ UNCHANGED <<dnsSent, sendFailed>>
       ELSE
         CASE sendState = "ready" ->
                /\ dnsInbox' = Tail(dnsInbox)
                /\ dnsTaken' = dnsTaken \cup {d}
                /\ dnsSent' = Append(dnsSent,
                                     [seq |-> d.seq, peer |-> d.peer,
                                      response |-> lookup(d.payload.packet)])
                /\ UNCHANGED <<dnsStatus, dnsErrorLogged, sendFailed>>
           [] sendState = "notready" ->
                SendNotReady(d)
           [] OTHER ->
                /\ dnsInbox' = Tail(dnsInbox)
                /\ dnsTaken' = dnsTaken \cup {d}
                /\ sendFailed' = TRUE
                /\ PollFails
                /\ UNCHANGED dnsSent
    /\ UNCHANGED <<dnsArrived, sendState>>
    /\ UNCHANGED <<lookupVars, registryVars, httpVars, lockVars, protocolVars, sessionVars, leafVars, tlsVars, staticVars, proxyVars, configVars, supervisorVars, logVars, scopeVars, reloadsVars, ctlVars>>

InitResponder ==
    /\ LookupIdle
    /\ ResponderStarted
    /\ RegistryEmpty
    /\ HttpIdle
    /\ LockFree
    /\ ProtocolIdle
    /\ SessionOpen
    /\ LeafIdle
    /\ TlsStarted
    /\ StaticIdle
    /\ ProxyIdle
    /\ ConfigIdle
    /\ SupervisorIdle
    /\ LogIdle
    /\ ScopeIdle
    /\ ReloadsIdle
    /\ CtlIdle

NextResponder ==
    \/ \E peer \in Peers, payload \in Payloads : DatagramArrives(peer, payload)
    \/ \E s \in {"ready", "notready", "error"} : SocketSendChanges(s)
    \/ DNSServer_poll

SpecResponder == InitResponder /\ [][NextResponder]_vars

\* ------------------------------------------------------------------------
\* The registry and the HTTP front-end
\* ------------------------------------------------------------------------
\* the developer (or the configuration client) changes one entry of the
\* state directory; read_dir yields the changed directory in the order `order`
StateDirChanges(name, node, order) ==
    /\ node \in NodesFor(name)
    /\ stateDir[name] # node
    /\ stateDir' = [stateDir EXCEPT ![name] = node]
    /\ dirOrder' = order
    /\ loadsSinceChange' = 0
    /\ UNCHANGED <<stateDirStatus, reloads, services, errors, reloadReply>>
    /\ UNCHANGED <<lookupVars, responderVars, httpVars, lockVars, protocolVars, sessionVars, leafVars, tlsVars, staticVars, proxyVars, configVars, supervisorVars, logVars, scopeVars, reloadsVars, ctlVars>>

\* the state directory itself disappears or comes back, or reading one of
\* its entries starts or stops failing
StateDirStatusChanges(status) ==
    /\ stateDirStatus # status
    /\ stateDirStatus' = status
    /\ loadsSinceChange' = 0
    /\ UNCHANGED <<stateDir, dirOrder, reloads, services, errors, reloadReply>>
    /\ UNCHANGED <<lookupVars, responderVars, httpVars, lockVars, protocolVars, sessionVars, leafVars, tlsVars, staticVars, proxyVars, configVars, supervisorVars, logVars, scopeVars, reloadsVars, ctlVars>>

\* management/mod.rs:133-140 with state.rs:171-206
handle_reload_state ==
    /\ reloads < MaxReloads
    /\ reloads' = reloads + 1
    /\ LET loaded == load_services([services |-> services, errors |-> errors],
                                   stateDir, dirOrder, stateDirStatus)
       IN /\ services' = loaded.services
          /\ errors' = loaded.errors
          /\ reloadReply' = IF loaded.ok THEN "Done" ELSE "Error"
          /\ loadsSinceChange' = IF loaded.ok THEN loadsSinceChange + 1 ELSE loadsSinceChange
    /\ UNCHANGED <<stateDir, stateDirStatus, dirOrder>>
    /\ UNCHANGED <<lookupVars, responderVars, httpVars, lockVars, protocolVars, sessionVars, leafVars, tlsVars, staticVars, proxyVars, configVars, supervisorVars, logVars, scopeVars, reloadsVars, ctlVars>>

\* web/mod.rs:190-217
MainService_call(req) ==
    /\ httpCalls < MaxCalls
    /\ httpCalls' = httpCalls + 1
    /\ httpReq' = req
    /\ httpOut' = call(services, req)
    /\ UNCHANGED <<lookupVars, responderVars, registryVars, lockVars, protocolVars, sessionVars, leafVars, tlsVars, staticVars, proxyVars, configVars, supervisorVars, logVars, scopeVars, reloadsVars, ctlVars>>

InitHttp ==
    /\ LookupIdle
    /\ ResponderStarted
    /\ RegistryEmpty
    /\ HttpIdle
    /\ LockFree
    /\ ProtocolIdle
    /\ SessionOpen
    /\ LeafIdle
    /\ TlsStarted
    /\ StaticIdle
    /\ ProxyIdle
    /\ ConfigIdle
    /\ SupervisorIdle
    /\ LogIdle
    /\ ScopeIdle
    /\ ReloadsIdle
    /\ CtlIdle

NextHttp ==
    \/ \E name \in {File_blog, File_Blog} : \E node \in NodesFor(name) :
            StateDirChanges(name, node, dirOrder)
    \/ \E status \in {"ok", "unreadable"} : StateDirStatusChanges(status)
    \/ handle_reload_state
    \/ \E req \in HttpRequests : MainService_call(req)

SpecHttp == InitHttp /\ [][NextHttp]_vars

\* ------------------------------------------------------------------------
\* Specification of the registry on its own: the state directory changes in
\* every way and Reload requests are handled
\* ------------------------------------------------------------------------
InitRegistry ==
    /\ LookupIdle
    /\ ResponderStarted
    /\ RegistryEmpty
    /\ HttpIdle
    /\ LockFree
    /\ ProtocolIdle
    /\ SessionOpen
    /\ LeafIdle
    /\ TlsStarted
    /\ StaticIdle
    /\ ProxyIdle
    /\ ConfigIdle
    /\ SupervisorIdle
    /\ LogIdle
    /\ ScopeIdle
    /\ ReloadsIdle
    /\ CtlIdle

NextRegistry ==
    \/ \E name \in FileNames, order \in DirOrders : \E node \in NodesFor(name) :
            StateDirChanges(name, node, order)
    \/ \E status \in {"ok", "unreadable", "entry_error"} : StateDirStatusChanges(status)
    \/ handle_reload_state

SpecRegistry == InitRegistry /\ [][NextRegistry]_vars

\* ------------------------------------------------------------------------
\* Specification of the registry behind its lock: the management handler
\* and MainService::call run on different threads of the runtime and meet
\* at the RwLock<AppState>; load_services is taken statement by statement
\* ------------------------------------------------------------------------
\* RwLock::read, web/mod.rs:191: granted while no write guard is held
CanReadAlways(writer) == TRUE

CanRead(writer) == ~writer

\* RwLock::write, management/mod.rs:135: granted while no guard is held
CanWriteAlways(writer, readers) == TRUE

CanWrite(writer, readers) == ~writer /\ readers = 0

\* management/mod.rs:103-126: the response is serialized and written once
\* the handler has returned it
ReadyToWriteEarly(pc) == pc \in {"scanned", "returned"}

ReadyToWrite(pc) == pc = "returned"

\* the requests the model sends while a Reload is under way
LockRequests ==
    {[hasHost |-> TRUE, host |-> h, remote |-> RemoteAddr] :
        h \in {Host_blog_test, Host_Blog_test_80}}

\* management/mod.rs:103-110: a "Reload" line arrives and is parsed
reload_request ==
    /\ reloadPc = "idle"
    /\ reloads < MaxReloads
    /\ reloads' = reloads + 1
    /\ reloadPc' = "requested"
    /\ UNCHANGED <<stateDir, stateDirStatus, dirOrder, loadsSinceChange, services,
                   errors, reloadReply>>
    /\ UNCHANGED <<lockWriter, lockReaders, lastLoad, published, callPc>>
    /\ UNCHANGED <<lookupVars, responderVars, httpVars, protocolVars, sessionVars, leafVars, tlsVars, staticVars, proxyVars, configVars, supervisorVars, logVars, scopeVars, reloadsVars, ctlVars>>

\* management/mod.rs:134-135: state.write()
reload_lock ==
    /\ reloadPc = "requested"
    /\ CanWrite(lockWriter, lockReaders)
    /\ lockWriter' = TRUE
    /\ reloadPc' = "locked"
    /\ UNCHANGED <<lockReaders, lastLoad, published, callPc>>
    /\ UNCHANGED <<lookupVars, responderVars, registryVars, httpVars, protocolVars, sessionVars, leafVars, tlsVars, staticVars, proxyVars, configVars, supervisorVars, logVars, scopeVars, reloadsVars, ctlVars>>

\* state.rs:174-200: the directory is read into the locals services and
\* errors; a failure returns at once (state.rs:177-182)
reload_scan ==
    /\ reloadPc = "locked"
    /\ LET built == load_services([services |-> services, errors |-> errors],
                                  stateDir, dirOrder, stateDirStatus)
       IN /\ lastLoad' = built
          /\ reloadPc' = IF built.ok THEN "scanned" ELSE "done"
          /\ loadsSinceChange' = IF built.ok THEN loadsSinceChange + 1
                                 ELSE loadsSinceChange
    /\ UNCHANGED <<stateDir, stateDirStatus, dirOrder, reloads, services, errors,
                   reloadReply>>
    /\ UNCHANGED <<lockWriter, lockReaders, published, callPc>>
    /\ UNCHANGED <<lookupVars, responderVars, httpVars, protocolVars, sessionVars, leafVars, tlsVars, staticVars, proxyVars, configVars, supervisorVars, logVars, scopeVars, reloadsVars, ctlVars>>

\* state.rs:202: self.errors = errors
reload_assign_errors ==
    /\ reloadPc = "scanned"
    /\ errors' = lastLoad.errors
    /\ reloadPc' = "errors_assigned"
    /\ UNCHANGED <<stateDir, stateDirStatus, dirOrder, loadsSinceChange, reloads,
                   services, reloadReply>>
    /\ UNCHANGED <<lockWriter, lockReaders, lastLoad, published, callPc>>
    /\ UNCHANGED <<lookupVars, responderVars, httpVars, protocolVars, sessionVars, leafVars, tlsVars, staticVars, proxyVars, configVars, supervisorVars, logVars, scopeVars, reloadsVars, ctlVars>>

\* state.rs:203: self.services = services
reload_assign_services ==
    /\ reloadPc = "errors_assigned"
    /\ services' = lastLoad.services
    /\ reloadPc' = "done"
    /\ UNCHANGED <<stateDir, stateDirStatus, dirOrder, loadsSinceChange, reloads,
                   errors, reloadReply>>
    /\ UNCHANGED <<lockWriter, lockReaders, lastLoad, published, callPc>>
    /\ UNCHANGED <<lookupVars, responderVars, httpVars, protocolVars, sessionVars, leafVars, tlsVars, staticVars, proxyVars, configVars, supervisorVars, logVars, scopeVars, reloadsVars, ctlVars>>

\* management/mod.rs:136-140: handle_reload_state returns its Response and
\* the write guard goes out of scope
reload_return ==
    /\ reloadPc = "done"
    /\ lockWriter' = FALSE
    /\ published' = [services |-> services, errors |-> errors]
    /\ reloadPc' = "returned"
    /\ UNCHANGED <<lockReaders, lastLoad, callPc>>
    /\ UNCHANGED <<lookupVars, responderVars, registryVars, httpVars, protocolVars, sessionVars, leafVars, tlsVars, staticVars, proxyVars, configVars, supervisorVars, logVars, scopeVars, reloadsVars, ctlVars>>

\* management/mod.rs:119-123: the response is written to the connection
write_response ==
    /\ ReadyToWrite(reloadPc)
    /\ reloadReply' = IF lastLoad.ok THEN "Done" ELSE "Error"
    /\ reloadPc' = "idle"
    /\ UNCHANGED <<stateDir, stateDirStatus, dirOrder, loadsSinceChange, reloads,
                   services, errors>>
    /\ UNCHANGED <<lockWriter, lockReaders, lastLoad, published, callPc>>
    /\ UNCHANGED <<lookupVars, responderVars, httpVars, protocolVars, sessionVars, leafVars, tlsVars, staticVars, proxyVars, configVars, supervisorVars, logVars, scopeVars, reloadsVars, ctlVars>>

\* web/mod.rs:190-191: call takes a read guard
call_lock(req) ==
    /\ callPc = "idle"
    /\ httpCalls < MaxCalls
    /\ CanRead(lockWriter)
    /\ lockReaders' = lockReaders + 1
    /\ httpReq' = req
    /\ callPc' = "locked"
    /\ UNCHANGED <<httpCalls, httpOut>>
    /\ UNCHANGED <<lockWriter, reloadPc, lastLoad, published>>
    /\ UNCHANGED <<lookupVars, responderVars, registryVars, protocolVars, sessionVars, leafVars, tlsVars, staticVars, proxyVars, configVars, supervisorVars, logVars, scopeVars, reloadsVars, ctlVars>>

\* web/mod.rs:192-217: the lookup under the guard; the guard is dropped
\* when call returns
call_lookup ==
    /\ callPc = "locked"
    /\ httpOut' = call(services, httpReq)
    /\ httpCalls' = httpCalls + 1
    /\ lockReaders' = lockReaders - 1
    /\ callPc' = "idle"
    /\ UNCHANGED httpReq
    /\ UNCHANGED <<lockWriter, reloadPc, lastLoad, published>>
    /\ UNCHANGED <<lookupVars, responderVars, registryVars, protocolVars, sessionVars, leafVars, tlsVars, staticVars, proxyVars, configVars, supervisorVars, logVars, scopeVars, reloadsVars, ctlVars>>

InitLock ==
    /\ LookupIdle
    /\ ResponderStarted
    /\ RegistryEmpty
    /\ HttpIdle
    /\ LockFree
    /\ ProtocolIdle
    /\ SessionOpen
    /\ LeafIdle
    /\ TlsStarted
    /\ StaticIdle
    /\ ProxyIdle
    /\ ConfigIdle
    /\ SupervisorIdle
    /\ LogIdle
    /\ ScopeIdle
    /\ ReloadsIdle
    /\ CtlIdle

NextLock ==
    \/ \E name \in {File_blog, File_raw} : \E node \in NodesFor(name) :
            StateDirChanges(name, node, dirOrder)
    \/ \E status \in {"ok", "unreadable"} : StateDirStatusChanges(status)
    \/ reload_request
    \/ reload_lock
    \/ reload_scan
    \/ reload_assign_errors
    \/ reload_assign_services
    \/ reload_return
    \/ write_response
    \/ \E req \in LockRequests : call_lock(req)
    \/ call_lookup

SpecLock == InitLock /\ [][NextLock]_vars

\* ------------------------------------------------------------------------
\* Specification of the management protocol on its own: a line is parsed,
\* or a Request is serialized by the client and the line is parsed
\* ------------------------------------------------------------------------
\* management/client.rs:24: req.serialize()
SerializeRequest ==
    /\ mgPhase = "request"
    /\ mgLine' = Request_serialize(mgRequest)
    /\ mgPhase' = "line"
    /\ UNCHANGED <<mgRequest, mgResult>>
    /\ UNCHANGED <<lookupVars, responderVars, registryVars, httpVars, lockVars, sessionVars, leafVars, tlsVars, staticVars, proxyVars, configVars, supervisorVars, logVars, scopeVars, reloadsVars, ctlVars>>

\* management/mod.rs:106: Request::parse(&line)
ParseLine ==
    /\ mgPhase = "line"
    /\ mgResult' = Request_parse(mgLine)
    /\ mgPhase' = "parsed"
    /\ UNCHANGED <<mgRequest, mgLine>>
    /\ UNCHANGED <<lookupVars, responderVars, registryVars, httpVars, lockVars, sessionVars, leafVars, tlsVars, staticVars, proxyVars, configVars, supervisorVars, logVars, scopeVars, reloadsVars, ctlVars>>

InitProtocol ==
    /\ LookupIdle
    /\ ResponderStarted
    /\ RegistryEmpty
    /\ HttpIdle
    /\ LockFree
    /\ SessionOpen
    /\ LeafIdle
    /\ TlsStarted
    /\ StaticIdle
    /\ ProxyIdle
    /\ ConfigIdle
    /\ SupervisorIdle
    /\ LogIdle
    /\ ScopeIdle
    /\ ReloadsIdle
    /\ CtlIdle
    /\ mgResult = ParseErr("", <<>>)
    /\ \/ /\ mgPhase = "line"
          /\ mgLine \in RequestLines
          /\ mgRequest = NoParsedRequest
       \/ /\ mgPhase = "request"
          /\ mgRequest \in Requests
          /\ mgLine = <<>>

NextProtocol ==
    \/ SerializeRequest
    \/ ParseLine

SpecProtocol == InitProtocol /\ [][NextProtocol]_vars

\* ------------------------------------------------------------------------
\* Specification of one management connection: the client writes request
\* lines, the server reads, handles and answers them one at a time
\* ------------------------------------------------------------------------
\* management/client.rs:24-28, or any client: a line and its "\n"
client_send(line) ==
    /\ Len(sessLines) < MaxLines
    /\ sessWire' = sessWire \o line \o <<"\n">>
    /\ sessLines' = Append(sessLines, line)
    /\ UNCHANGED <<sessWriting, sessOut, logSpec, sslSpawned>>
    /\ UNCHANGED <<lookupVars, responderVars, registryVars, httpVars, lockVars, protocolVars, leafVars, tlsVars, staticVars, proxyVars, configVars, supervisorVars, logVars, scopeVars, reloadsVars, ctlVars>>

\* management/mod.rs:105-118: the closure of lines.map on the next line;
\* fold does not ask for the next line before the write of the last
\* response has finished
session_handle ==
    /\ sessWriting = NoResponse
    /\ Positions(sessWire, "\n") # {}
    /\ LET read == ReadLine(sessWire)
           parsed == Request_parse(read.line)
           request == parsed.request
           loaded == load_services([services |-> services, errors |-> errors],
                                   stateDir, dirOrder, stateDirStatus)
       IN /\ sessWire' = read.rest
          /\ IF parsed.ok /\ request.kind = "ReloadState"
             THEN /\ reloads' = reloads + 1
                  /\ services' = loaded.services
                  /\ errors' = loaded.errors
                  /\ reloadReply' = IF loaded.ok THEN "Done" ELSE "Error"
                  /\ loadsSinceChange' = IF loaded.ok THEN loadsSinceChange + 1
                                         ELSE loadsSinceChange
                  /\ UNCHANGED <<stateDir, stateDirStatus, dirOrder>>
             ELSE UNCHANGED registryVars
          /\ \E specOk \in IF parsed.ok /\ request.level = "CustomLevel"
                           THEN BOOLEAN ELSE {TRUE} :
                /\ logSpec' = IF parsed.ok /\ specOk
                                 /\ request.kind \in {"SetLogLevel", "ResetLogLevel"}
                              THEN LogSpecFor(request, DefaultLogSpec)
                              ELSE logSpec
                /\ sessWriting' =
                     IF ~parsed.ok THEN Response_Error(ErrMessage(parsed))
                     ELSE IF request.kind = "ReloadState"
                     THEN IF loaded.ok THEN Response_Done
                          ELSE Response_Error(<<"error reloading: {}", "<cause>">>)
                     ELSE IF request.kind \in {"SetLogLevel", "ResetLogLevel"}
                     THEN IF specOk THEN Response_Done
                          ELSE Response_Error(<<"error setting log level: {}", "<cause>">>)
                     ELSE IF request.kind = "ServerStatus" THEN Response_Done
                     ELSE handle_reload_ssl(sslSpawned).response
          /\ sslSpawned' = IF parsed.ok /\ request.kind = "ReloadSsl"
                           THEN handle_reload_ssl(sslSpawned).spawned ELSE sslSpawned
    /\ UNCHANGED <<sessLines, sessOut>>
    /\ UNCHANGED <<lookupVars, responderVars, httpVars, lockVars, protocolVars, leafVars, tlsVars, staticVars, proxyVars, configVars, supervisorVars, logVars, scopeVars, reloadsVars, ctlVars>>

\* management/mod.rs:119-123: write_all of the serialized response
session_write ==
    /\ sessWriting # NoResponse
    /\ sessOut' = Append(sessOut, WireResponse(sessWriting))
    /\ sessWriting' = NoResponse
    /\ UNCHANGED <<sessWire, sessLines, logSpec, sslSpawned>>
    /\ UNCHANGED <<lookupVars, responderVars, registryVars, httpVars, lockVars, protocolVars, leafVars, tlsVars, staticVars, proxyVars, configVars, supervisorVars, logVars, scopeVars, reloadsVars, ctlVars>>

InitSession ==
    /\ LookupIdle
    /\ ResponderStarted
    /\ RegistryEmpty
    /\ HttpIdle
    /\ LockFree
    /\ ProtocolIdle
    /\ SessionOpen
    /\ LeafIdle
    /\ TlsStarted
    /\ StaticIdle
    /\ ProxyIdle
    /\ ConfigIdle
    /\ SupervisorIdle
    /\ LogIdle
    /\ ScopeIdle
    /\ ReloadsIdle
    /\ CtlIdle

NextSession ==
    \/ \E line \in SessionLines : client_send(line)
    \/ session_handle
    \/ session_write
    \/ \E node \in {DirNode("/srv/blog"), Absent} : StateDirChanges(File_blog, node, dirOrder)
    \/ \E status \in {"ok", "unreadable"} : StateDirStatusChanges(status)

SpecSession == InitSession /\ [][NextSession]_vars

\* ------------------------------------------------------------------------
\* Specification of the leaf on its own: one list of names, one call
\* ------------------------------------------------------------------------
\* ssl.rs:77-142
mk_ca_signed_cert ==
    /\ leafPhase = "asked"
    /\ leafSan' = SubjectAltNames(leafNames)
    /\ leafPhase' = "minted"
    /\ UNCHANGED leafNames
    /\ UNCHANGED <<lookupVars, responderVars, registryVars, httpVars, lockVars, protocolVars, sessionVars, tlsVars, staticVars, proxyVars, configVars, supervisorVars, logVars, scopeVars, reloadsVars, ctlVars>>

InitLeaf ==
    /\ LookupIdle
    /\ ResponderStarted
    /\ RegistryEmpty
    /\ HttpIdle
    /\ LockFree
    /\ ProtocolIdle
    /\ SessionOpen
    /\ leafPhase = "asked"
    /\ leafNames \in NameLists
    /\ leafSan = <<>>
    /\ TlsStarted
    /\ StaticIdle
    /\ ProxyIdle
    /\ ConfigIdle
    /\ SupervisorIdle
    /\ LogIdle
    /\ ScopeIdle
    /\ ReloadsIdle
    /\ CtlIdle

NextLeaf == mk_ca_signed_cert

SpecLeaf == InitLeaf /\ [][NextLeaf]_vars

\* ------------------------------------------------------------------------
\* Specification of the TLS leaf replacement: ReloadSsl requests on a
\* management connection, the channel to the HTTPS server, the reloader
\* and the accept loop
\* ------------------------------------------------------------------------
\* management/mod.rs:144-148: the spawned send is polled: the notification
\* is queued, or the send fails when the receiver has been dropped
\* (supervisor.rs:46-48 hands rx to the HTTPS server only if there is one)
send_notification ==
    /\ sslSpawned > 0
    /\ sslSpawned' = sslSpawned - 1
    /\ IF httpsEnabled
       THEN sslChannel' = sslChannel + 1 /\ UNCHANGED sslSendErrors
       ELSE sslSendErrors' = sslSendErrors + 1 /\ UNCHANGED sslChannel
    /\ UNCHANGED <<sessWire, sessLines, sessWriting, sessOut, logSpec>>
    /\ UNCHANGED <<httpsEnabled, tlsSlot, tlsPending, tlsMinted, tlsConns, tls_acceptor>>
    /\ UNCHANGED <<lookupVars, responderVars, registryVars, httpVars, lockVars, protocolVars, leafVars, staticVars, proxyVars, configVars, supervisorVars, logVars, scopeVars, reloadsVars, ctlVars>>

\* the reloader takes a notification and mints a leaf for the names of the
\* registry as it is now
reloader_mint ==
    /\ httpsEnabled
    /\ sslChannel > 0
    /\ tlsPending = NoAcceptor
    /\ sslChannel' = sslChannel - 1
    /\ \E names \in KeyLists(services) :
            tlsPending' = Acceptor(tlsMinted + 1, SubjectAltNames(names))
    /\ UNCHANGED <<httpsEnabled, sslSendErrors, tlsSlot, tlsMinted, tlsConns, tls_acceptor>>
    /\ UNCHANGED <<lookupVars, responderVars, registryVars, httpVars, lockVars, protocolVars, sessionVars, leafVars, staticVars, proxyVars, configVars, supervisorVars, logVars, scopeVars, reloadsVars, ctlVars>>

\* the reloader swaps the new acceptor into the slot
reloader_swap ==
    /\ tlsPending # NoAcceptor
    /\ tlsSlot' = SwapSlot(tlsSlot, tlsPending)
    /\ tlsPending' = NoAcceptor
    /\ tlsMinted' = tlsMinted + 1
    /\ UNCHANGED <<httpsEnabled, sslChannel, sslSendErrors, tlsConns, tls_acceptor>>
    /\ UNCHANGED <<lookupVars, responderVars, registryVars, httpVars, lockVars, protocolVars, sessionVars, leafVars, staticVars, proxyVars, configVars, supervisorVars, logVars, scopeVars, reloadsVars, ctlVars>>

\* web/mod.rs:125-147: the accept loop owns the acceptor cloned from
\* tls_acceptor before the loop starts (line 125); every connection is
\* accepted with it (lines 133-134) and keeps the TLS stream it was given.
\* slot and minted record what the shared slot held at that moment.
https_accept ==
    /\ httpsEnabled
    /\ Len(tlsConns) < MaxConns
    /\ tlsConns' = Append(tlsConns, [acceptor |-> tls_acceptor, slot |-> tlsSlot,
                                     minted |-> tlsMinted])
    /\ UNCHANGED <<httpsEnabled, sslChannel, sslSendErrors, tlsSlot, tlsPending, tlsMinted, tls_acceptor>>
    /\ UNCHANGED <<lookupVars, responderVars, registryVars, httpVars, lockVars, protocolVars, sessionVars, leafVars, staticVars, proxyVars, configVars, supervisorVars, logVars, scopeVars, reloadsVars, ctlVars>>

InitTls ==
    /\ LookupIdle
    /\ ResponderStarted
    /\ RegistryEmpty
    /\ HttpIdle
    /\ LockFree
    /\ ProtocolIdle
    /\ SessionOpen
    /\ LeafIdle
    /\ httpsEnabled \in BOOLEAN
    /\ sslChannel = 0
    /\ sslSendErrors = 0
    /\ tlsSlot = Acceptor(0, SubjectAltNames(<<>>))
    /\ tlsPending = NoAcceptor
    /\ tlsMinted = 0
    /\ tlsConns = <<>>
    /\ tls_acceptor = Acceptor(0, SubjectAltNames(<<>>))
    /\ StaticIdle
    /\ ProxyIdle
    /\ ConfigIdle
    /\ SupervisorIdle
    /\ LogIdle
    /\ ScopeIdle
    /\ ReloadsIdle
    /\ CtlIdle

NextTls ==
    \/ \E line \in TlsLines : client_send(line)
    \/ session_handle
    \/ session_write
    \/ \E name \in {File_blog, File_Blog} :
        \E node \in {DirNode("/srv/blog"), DirNode("/srv/Blog"), Absent} \cap NodesFor(name) :
            StateDirChanges(name, node, dirOrder)
    \/ send_notification
    \/ reloader_mint
    \/ reloader_swap
    \/ https_accept

SpecTls == InitTls /\ [][NextTls]_vars

\* the same with at most MaxSslLines request lines
NextTlsReload ==
    \/ \E line \in TlsLines : Len(sessLines) < MaxSslLines /\ client_send(line)
    \/ session_handle
    \/ session_write
    \/ \E node \in {DirNode("/srv/blog"), Absent} : StateDirChanges(File_blog, node, dirOrder)
    \/ send_notification
    \/ reloader_mint
    \/ reloader_swap
    \/ https_accept

\* the runtime polls a spawned future that can make progress, and the
\* connection's task writes a response it holds
SpecTlsLive ==
    /\ InitTls
    /\ [][NextTlsReload]_vars
    /\ WF_vars(session_handle)
    /\ WF_vars(session_write)
    /\ WF_vars(send_notification)
    /\ WF_vars(reloader_mint)
    /\ WF_vars(reloader_swap)

\* ------------------------------------------------------------------------
\* Specification of the static file server: one request for one service
\* ------------------------------------------------------------------------
\* static_files.rs:17-18 and 27-29: the local path is looked up; without
\* one the response is 404
static_resolve ==
    /\ stPhase = "asked"
    /\ LET started == serve_start(stRequest, stRoot)
       IN /\ stPhase' = started.phase
          /\ stPath' = started.path
          /\ stStatus' = started.status
    /\ UNCHANGED <<stRequest, stRoot, stOpen>>
    /\ UNCHANGED <<lookupVars, responderVars, registryVars, httpVars, lockVars, protocolVars, sessionVars, leafVars, tlsVars, proxyVars, configVars, supervisorVars, logVars, scopeVars, reloadsVars, ctlVars>>

\* static_files.rs:19-25: File::open completes; an error is answered 500.
\* Opening a directory succeeds.
static_open(ok) ==
    /\ stPhase = "opening"
    /\ stOpen' = IF ok THEN "ok" ELSE "failed"
    /\ stPhase' = IF ok THEN "reading" ELSE "done"
    /\ stStatus' = IF ok THEN 0 ELSE 500
    /\ UNCHANGED <<stRequest, stRoot, stPath>>
    /\ UNCHANGED <<lookupVars, responderVars, registryVars, httpVars, lockVars, protocolVars, sessionVars, leafVars, tlsVars, proxyVars, configVars, supervisorVars, logVars, scopeVars, reloadsVars, ctlVars>>

\* fn read_file, static_files.rs:34-50: the file is read and answered 200;
\* a read error (always, for a directory) ends the future with the error
static_read(ok) ==
    /\ stPhase = "reading"
    /\ stPath.path \in FsDirs => ~ok
    /\ stPhase' = "done"
    /\ stStatus' = IF ok THEN 200 ELSE -1
    /\ UNCHANGED <<stRequest, stRoot, stPath, stOpen>>
    /\ UNCHANGED <<lookupVars, responderVars, registryVars, httpVars, lockVars, protocolVars, sessionVars, leafVars, tlsVars, proxyVars, configVars, supervisorVars, logVars, scopeVars, reloadsVars, ctlVars>>

InitStatic ==
    /\ LookupIdle
    /\ ResponderStarted
    /\ RegistryEmpty
    /\ HttpIdle
    /\ LockFree
    /\ ProtocolIdle
    /\ SessionOpen
    /\ LeafIdle
    /\ TlsStarted
    /\ stRequest \in RequestPaths
    /\ stRoot \in RootDirs
    /\ stPhase = "asked"
    /\ stPath = NoPath
    /\ stOpen = "none"
    /\ stStatus = 0
    /\ ProxyIdle
    /\ ConfigIdle
    /\ SupervisorIdle
    /\ LogIdle
    /\ ScopeIdle
    /\ ReloadsIdle
    /\ CtlIdle

NextStatic ==
    \/ static_resolve
    \/ \E ok \in BOOLEAN : static_open(ok)
    \/ \E ok \in BOOLEAN : static_read(ok)

SpecStatic == InitStatic /\ [][NextStatic]_vars

\* ------------------------------------------------------------------------
\* Specification of the reverse proxy: one request dispatched to
\* ReverseProxy(target)
\* ------------------------------------------------------------------------
\* reverse_proxy.rs:40-66: the request is rewritten and given to the client
proxy_forward ==
    /\ pxPhase = "asked"
    /\ pxUpstream' = proxy_request(pxReq, pxRemote, pxTarget)
    /\ pxPhase' = "forwarded"
    /\ UNCHANGED <<pxReq, pxRemote, pxTarget, pxUpResp, pxOut, pxFuture, pxConn, pxServed, pxFailures>>
    /\ UNCHANGED <<lookupVars, responderVars, registryVars, httpVars, lockVars, protocolVars, sessionVars, leafVars, tlsVars, staticVars, configVars, supervisorVars, logVars, scopeVars, reloadsVars, ctlVars>>

\* reverse_proxy.rs:72-89 and 98: the upstream server answers
proxy_upstream_ok(response) ==
    /\ pxPhase = "forwarded"
    /\ pxUpResp' = response
    /\ pxOut' = proxy_response(response)
    /\ pxPhase' = "done"
    /\ pxFuture' = "ok"
    /\ pxServed' = pxServed + 1
    /\ UNCHANGED <<pxReq, pxRemote, pxTarget, pxUpstream, pxConn, pxFailures>>
    /\ UNCHANGED <<lookupVars, responderVars, registryVars, httpVars, lockVars, protocolVars, sessionVars, leafVars, tlsVars, staticVars, configVars, supervisorVars, logVars, scopeVars, reloadsVars, ctlVars>>

\* reverse_proxy.rs:90-96: the client reports an error. A handler future
\* that ends with an error ends the task serving the connection
\* (web/mod.rs:110-113).
proxy_upstream_err ==
    /\ pxPhase = "forwarded"
    /\ LET ended == on_upstream_error("connect")
       IN /\ pxOut' = ended.response
          /\ pxFuture' = ended.future
          /\ pxConn' = IF ended.future = "err" THEN "closed" ELSE pxConn
          /\ pxServed' = IF ended.future = "ok" THEN pxServed + 1 ELSE pxServed
    /\ pxPhase' = "failed"
    /\ pxFailures' = pxFailures + 1
    /\ UNCHANGED <<pxReq, pxRemote, pxTarget, pxUpstream, pxUpResp>>
    /\ UNCHANGED <<lookupVars, responderVars, registryVars, httpVars, lockVars, protocolVars, sessionVars, leafVars, tlsVars, staticVars, configVars, supervisorVars, logVars, scopeVars, reloadsVars, ctlVars>>

InitProxy ==
    /\ LookupIdle
    /\ ResponderStarted
    /\ RegistryEmpty
    /\ HttpIdle
    /\ LockFree
    /\ ProtocolIdle
    /\ SessionOpen
    /\ LeafIdle
    /\ TlsStarted
    /\ StaticIdle
    /\ pxPhase = "asked"
    /\ pxReq \in ProxyRequests
    /\ pxRemote \in RemoteHosts
    /\ pxTarget \in TargetHosts
    /\ pxUpstream = NoUpstreamRequest
    /\ pxUpResp = NoProxyResponse
    /\ pxOut = NoProxyResponse
    /\ pxFuture = "pending"
    /\ pxConn = "open"
    /\ pxServed = 0
    /\ pxFailures = 0
    /\ ConfigIdle
    /\ SupervisorIdle
    /\ LogIdle
    /\ ScopeIdle
    /\ ReloadsIdle
    /\ CtlIdle

NextProxy ==
    \/ proxy_forward
    \/ \E response \in UpstreamResponses : proxy_upstream_ok(response)
    \/ proxy_upstream_err

SpecProxy == InitProxy /\ [][NextProxy]_vars

\* ------------------------------------------------------------------------
\* Specification of a connection that sends several requests to reverse
\* proxies
\* ------------------------------------------------------------------------
\* web/mod.rs:105-113: serve_connection calls the service again for the
\* next request of the connection
proxy_next_request(req, target) ==
    /\ pxPhase \in {"done", "failed"}
    /\ pxConn = "open"
    /\ pxServed < MaxProxyRequests
    /\ pxPhase' = "asked"
    /\ pxReq' = req
    /\ pxTarget' = target
    /\ pxUpstream' = NoUpstreamRequest
    /\ pxUpResp' = NoProxyResponse
    /\ pxOut' = NoProxyResponse
    /\ pxFuture' = "pending"
    /\ UNCHANGED <<pxRemote, pxConn, pxServed, pxFailures>>
    /\ UNCHANGED <<lookupVars, responderVars, registryVars, httpVars, lockVars, protocolVars, sessionVars, leafVars, tlsVars, staticVars, configVars, supervisorVars, logVars, scopeVars, reloadsVars, ctlVars>>

\* the requests of the connection
SeqRequests ==
    {req \in ProxyRequests :
        /\ req.headers["x-forwarded-for"] = <<>>
        /\ req.headers["x-forwarded-port"] = <<>>
        /\ req.query = NoQuery
        /\ req.body = <<>>}

InitProxySeq ==
    /\ LookupIdle
    /\ ResponderStarted
    /\ RegistryEmpty
    /\ HttpIdle
    /\ LockFree
    /\ ProtocolIdle
    /\ SessionOpen
    /\ LeafIdle
    /\ TlsStarted
    /\ StaticIdle
    /\ pxPhase = "asked"
    /\ pxReq \in SeqRequests
    /\ pxRemote \in RemoteHosts
    /\ pxTarget \in TargetHosts
    /\ pxUpstream = NoUpstreamRequest
    /\ pxUpResp = NoProxyResponse
    /\ pxOut = NoProxyResponse
    /\ pxFuture = "pending"
    /\ pxConn = "open"
    /\ pxServed = 0
    /\ pxFailures = 0
    /\ ConfigIdle
    /\ SupervisorIdle
    /\ LogIdle
    /\ ScopeIdle
    /\ ReloadsIdle
    /\ CtlIdle

NextProxySeq ==
    \/ proxy_forward
    \/ \E response \in UpstreamResponses : proxy_upstream_ok(response)
    \/ proxy_upstream_err
    \/ \E req \in SeqRequests : \E target \in TargetHosts : proxy_next_request(req, target)

SpecProxySeq == InitProxySeq /\ [][NextProxySeq]_vars

\* ------------------------------------------------------------------------
\* Specification of parse_config on one regular file
\* ------------------------------------------------------------------------
\* state.rs:27-40
parse_config_call ==
    /\ cfPhase = "written"
    /\ cfResult' = parse_config_file(cfContent)
    /\ cfPhase' = "parsed"
    /\ UNCHANGED cfContent
    /\ UNCHANGED <<lookupVars, responderVars, registryVars, httpVars, lockVars, protocolVars, sessionVars, leafVars, tlsVars, staticVars, proxyVars, supervisorVars, logVars, scopeVars, reloadsVars, ctlVars>>

InitConfig ==
    /\ LookupIdle
    /\ ResponderStarted
    /\ RegistryEmpty
    /\ HttpIdle
    /\ LockFree
    /\ ProtocolIdle
    /\ SessionOpen
    /\ LeafIdle
    /\ TlsStarted
    /\ StaticIdle
    /\ ProxyIdle
    /\ cfContent \in ConfigFiles
    /\ cfPhase = "written"
    /\ cfResult = [ok |-> FALSE, service |-> InvalidConfig("", <<>>)]
    /\ SupervisorIdle
    /\ LogIdle
    /\ ScopeIdle
    /\ ReloadsIdle
    /\ CtlIdle

NextConfig == parse_config_call

SpecConfig == InitConfig /\ [][NextConfig]_vars

\* ------------------------------------------------------------------------
\* Specification of the supervisor future
\* ------------------------------------------------------------------------
\* a listener serves a datagram (dns/mod.rs:31-44) or accepts a connection
\* (management/mod.rs:95-98, web/mod.rs:103-104, 126-129)
listener_serve(l) ==
    /\ svFuture = "pending"
    /\ svListeners[l] = "running"
    /\ svAccepted[l] < MaxAccepts
    /\ svAccepted' = [svAccepted EXCEPT ![l] = @ + 1]
    /\ UNCHANGED <<svListeners, svSignal, svFuture>>
    /\ UNCHANGED <<lookupVars, responderVars, registryVars, httpVars, lockVars, protocolVars, sessionVars, leafVars, tlsVars, staticVars, proxyVars, configVars, logVars, scopeVars, reloadsVars, ctlVars>>

\* the poll of the supervisor future in which listener l returns an error
\* (dns/mod.rs:33-41 through map_err at supervisor.rs:40-41; the incoming
\* streams at management/mod.rs:97, web/mod.rs:103, 128)
listener_error(l) ==
    /\ svFuture = "pending"
    /\ svListeners[l] = "running"
    /\ LET polled == [svListeners EXCEPT ![l] = "failed"]
           outcome == select2(join_all(polled), trap(svSignal))
       IN /\ svFuture' = outcome
          /\ svListeners' = after_select2(join_all_elems(polled), outcome)
    /\ UNCHANGED <<svAccepted, svSignal>>
    /\ UNCHANGED <<lookupVars, responderVars, registryVars, httpVars, lockVars, protocolVars, sessionVars, leafVars, tlsVars, staticVars, proxyVars, configVars, logVars, scopeVars, reloadsVars, ctlVars>>

\* the process receives SIGTERM or SIGINT, supervisor.rs:49
signal_deliver(sig) ==
    /\ svFuture = "pending"
    /\ svSignal = "none"
    /\ svSignal' = sig
    /\ UNCHANGED <<svListeners, svAccepted, svFuture>>
    /\ UNCHANGED <<lookupVars, responderVars, registryVars, httpVars, lockVars, protocolVars, sessionVars, leafVars, tlsVars, staticVars, proxyVars, configVars, logVars, scopeVars, reloadsVars, ctlVars>>

\* the poll of the supervisor future the signal source wakes it for,
\* supervisor.rs:58-63
supervisor_poll ==
    /\ svFuture = "pending"
    /\ svSignal # "none"
    /\ LET outcome == select2(join_all(svListeners), trap(svSignal))
       IN /\ svFuture' = outcome
          /\ svListeners' = after_select2(join_all_elems(svListeners), outcome)
    /\ UNCHANGED <<svAccepted, svSignal>>
    /\ UNCHANGED <<lookupVars, responderVars, registryVars, httpVars, lockVars, protocolVars, sessionVars, leafVars, tlsVars, staticVars, proxyVars, configVars, logVars, scopeVars, reloadsVars, ctlVars>>

\* Supervisor::run, supervisor.rs:36-48: the HTTPS listener is optional
InitSupervisor ==
    /\ LookupIdle
    /\ ResponderStarted
    /\ RegistryEmpty
    /\ HttpIdle
    /\ LockFree
    /\ ProtocolIdle
    /\ SessionOpen
    /\ LeafIdle
    /\ TlsStarted
    /\ StaticIdle
    /\ ProxyIdle
    /\ ConfigIdle
    /\ \E https \in {"absent", "running"} :
          svListeners = [l \in Listeners |-> IF l = "https" THEN https ELSE "running"]
    /\ svAccepted = [l \in Listeners |-> 0]
    /\ svSignal = "none"
    /\ svFuture = "pending"
    /\ LogIdle
    /\ ScopeIdle
    /\ ReloadsIdle
    /\ CtlIdle

NextSupervisor ==
    \/ \E l \in Listeners : listener_serve(l)
    \/ \E l \in Listeners : listener_error(l)
    \/ \E sig \in TerminateSignals : signal_deliver(sig)
    \/ supervisor_poll

SpecSupervisor == InitSupervisor /\ [][NextSupervisor]_vars

\* the runtime polls a task that was woken: a delivered signal wakes the
\* task of the supervisor future (tokio::run at bin/duwop.rs:137)
SpecSupervisorLive == SpecSupervisor /\ WF_vars(supervisor_poll)

\* ------------------------------------------------------------------------
\* Specification of the log level requests
\* ------------------------------------------------------------------------
\* management/mod.rs:103-115: a line that parses to a log request
log_request(line) ==
    /\ lgCount < MaxLogRequests
    /\ LET parsed == Request_parse(line)
           handled == handle_log_request(parsed.request, lgDefault, lgHandler)
       IN /\ parsed.ok
          /\ parsed.request.kind \in {"SetLogLevel", "ResetLogLevel"}
          /\ lgHandler' = handled.handler
          /\ lgReply' = handled.response
    /\ lgLine' = line
    /\ lgCount' = lgCount + 1
    /\ UNCHANGED lgDefault
    /\ UNCHANGED <<lookupVars, responderVars, registryVars, httpVars, lockVars, protocolVars, sessionVars, leafVars, tlsVars, staticVars, proxyVars, configVars, supervisorVars, scopeVars, reloadsVars, ctlVars>>

\* Server::new, management/mod.rs:76-87; the logger starts with a
\* specification of its own (bin/duwop.rs:111-122)
InitLog ==
    /\ LookupIdle
    /\ ResponderStarted
    /\ RegistryEmpty
    /\ HttpIdle
    /\ LockFree
    /\ ProtocolIdle
    /\ SessionOpen
    /\ LeafIdle
    /\ TlsStarted
    /\ StaticIdle
    /\ ProxyIdle
    /\ ConfigIdle
    /\ SupervisorIdle
    /\ lgDefault \in DefaultSpecs
    /\ lgHandler \in DefaultSpecs
    /\ lgLine = <<>>
    /\ lgReply = NoResponse
    /\ lgCount = 0
    /\ ScopeIdle
    /\ ReloadsIdle
    /\ CtlIdle

NextLog == \E line \in LogLines : log_request(line)

SpecLog == InitLog /\ [][NextLog]_vars

\* ------------------------------------------------------------------------
\* Specification of the scope of the registry lock in MainService::call
\* ------------------------------------------------------------------------
\* the entries a lookup finds, web/mod.rs:202-215
ServiceKinds == {"None", "StaticFiles", "ReverseProxy", "InvalidConfig"}

\* web/mod.rs:191: self.state.read(); the guard lives until call returns
scope_call_read(h) ==
    /\ scPhase[h] = "idle"
    /\ scWriter # "held"
    /\ scReaders' = scReaders \cup {h}
    /\ scPhase' = [scPhase EXCEPT ![h] = "lookup"]
    /\ UNCHANGED <<scService, scFound, scWriter>>
    /\ UNCHANGED <<lookupVars, responderVars, registryVars, httpVars, lockVars, protocolVars, sessionVars, leafVars, tlsVars, staticVars, proxyVars, configVars, supervisorVars, logVars, reloadsVars, ctlVars>>

\* web/mod.rs:202-215: state.services.get(key) and the arm of its entry;
\* static_files::serve runs local_path_for_request, which canonicalizes
\* (static_files.rs:17-18, 89), reverse_proxy's serve builds its future
scope_call_get(h, kind) ==
    /\ scPhase[h] = "lookup"
    /\ scService' = [scService EXCEPT ![h] = kind]
    /\ scPhase' = [scPhase EXCEPT ![h] = IF kind = "StaticFiles" THEN "canonicalize" ELSE "built"]
    /\ UNCHANGED <<scFound, scReaders, scWriter>>
    /\ UNCHANGED <<lookupVars, responderVars, registryVars, httpVars, lockVars, protocolVars, sessionVars, leafVars, tlsVars, staticVars, proxyVars, configVars, supervisorVars, logVars, reloadsVars, ctlVars>>

\* static_files.rs:89-101: path.canonicalize() returns
scope_canonicalize(h, found) ==
    /\ scPhase[h] = "canonicalize"
    /\ scFound' = [scFound EXCEPT ![h] = found]
    /\ scPhase' = [scPhase EXCEPT ![h] = "built"]
    /\ UNCHANGED <<scService, scReaders, scWriter>>
    /\ UNCHANGED <<lookupVars, responderVars, registryVars, httpVars, lockVars, protocolVars, sessionVars, leafVars, tlsVars, staticVars, proxyVars, configVars, supervisorVars, logVars, reloadsVars, ctlVars>>

\* web/mod.rs:216-217: call returns its future and the guard is dropped;
\* the future then opens the file (static_files.rs:19) or sends the
\* request upstream (reverse_proxy.rs:66)
scope_call_return(h) ==
    /\ scPhase[h] = "built"
    /\ scReaders' = scReaders \ {h}
    /\ scPhase' = [scPhase EXCEPT ![h] =
            IF scService[h] = "StaticFiles" /\ scFound[h] THEN "open"
            ELSE IF scService[h] = "ReverseProxy" THEN "upstream"
            ELSE "done"]
    /\ UNCHANGED <<scService, scFound, scWriter>>
    /\ UNCHANGED <<lookupVars, responderVars, registryVars, httpVars, lockVars, protocolVars, sessionVars, leafVars, tlsVars, staticVars, proxyVars, configVars, supervisorVars, logVars, reloadsVars, ctlVars>>

\* static_files.rs:19-27: File::open completes
scope_future_open(h, ok) ==
    /\ scPhase[h] = "open"
    /\ scPhase' = [scPhase EXCEPT ![h] = IF ok THEN "read" ELSE "done"]
    /\ UNCHANGED <<scService, scFound, scReaders, scWriter>>
    /\ UNCHANGED <<lookupVars, responderVars, registryVars, httpVars, lockVars, protocolVars, sessionVars, leafVars, tlsVars, staticVars, proxyVars, configVars, supervisorVars, logVars, reloadsVars, ctlVars>>

\* static_files.rs:34-50 read_to_end, reverse_proxy.rs:66-99 the upstream
\* exchange, and the response of the other arms
scope_future_done(h) ==
    /\ scPhase[h] \in {"read", "upstream", "done"}
    /\ scPhase' = [scPhase EXCEPT ![h] = IF scPhase[h] = "done" THEN "idle" ELSE "done"]
    /\ scService' = [scService EXCEPT ![h] = IF scPhase[h] = "done" THEN "None" ELSE @]
    /\ scFound' = [scFound EXCEPT ![h] = IF scPhase[h] = "done" THEN FALSE ELSE @]
    /\ UNCHANGED <<scReaders, scWriter>>
    /\ UNCHANGED <<lookupVars, responderVars, registryVars, httpVars, lockVars, protocolVars, sessionVars, leafVars, tlsVars, staticVars, proxyVars, configVars, supervisorVars, logVars, reloadsVars, ctlVars>>

\* management/mod.rs:133-135: a Reload asks for the write lock
scope_reload_wait ==
    /\ scWriter = "none"
    /\ scWriter' = "waiting"
    /\ UNCHANGED <<scPhase, scService, scFound, scReaders>>
    /\ UNCHANGED <<lookupVars, responderVars, registryVars, httpVars, lockVars, protocolVars, sessionVars, leafVars, tlsVars, staticVars, proxyVars, configVars, supervisorVars, logVars, reloadsVars, ctlVars>>

\* state.write() returns once no read guard is left
scope_reload_lock ==
    /\ scWriter = "waiting"
    /\ scReaders = {}
    /\ scWriter' = "held"
    /\ UNCHANGED <<scPhase, scService, scFound, scReaders>>
    /\ UNCHANGED <<lookupVars, responderVars, registryVars, httpVars, lockVars, protocolVars, sessionVars, leafVars, tlsVars, staticVars, proxyVars, configVars, supervisorVars, logVars, reloadsVars, ctlVars>>

\* management/mod.rs:136-140: load_services returns and the guard is dropped
scope_reload_return ==
    /\ scWriter = "held"
    /\ scWriter' = "none"
    /\ UNCHANGED <<scPhase, scService, scFound, scReaders>>
    /\ UNCHANGED <<lookupVars, responderVars, registryVars, httpVars, lockVars, protocolVars, sessionVars, leafVars, tlsVars, staticVars, proxyVars, configVars, supervisorVars, logVars, reloadsVars, ctlVars>>

InitScope ==
    /\ LookupIdle
    /\ ResponderStarted
    /\ RegistryEmpty
    /\ HttpIdle
    /\ LockFree
    /\ ProtocolIdle
    /\ SessionOpen
    /\ LeafIdle
    /\ TlsStarted
    /\ StaticIdle
    /\ ProxyIdle
    /\ ConfigIdle
    /\ SupervisorIdle
    /\ LogIdle
    /\ ScopeIdle
    /\ ReloadsIdle
    /\ CtlIdle

NextScope ==
    \/ \E h \in 1..MaxHandlers : scope_call_read(h)
    \/ \E h \in 1..MaxHandlers : \E kind \in ServiceKinds : scope_call_get(h, kind)
    \/ \E h \in 1..MaxHandlers : \E found \in BOOLEAN : scope_canonicalize(h, found)
    \/ \E h \in 1..MaxHandlers : scope_call_return(h)
    \/ \E h \in 1..MaxHandlers : \E ok \in BOOLEAN : scope_future_open(h, ok)
    \/ \E h \in 1..MaxHandlers : scope_future_done(h)
    \/ scope_reload_wait
    \/ scope_reload_lock
    \/ scope_reload_return

SpecScope == InitScope /\ [][NextScope]_vars

\* ------------------------------------------------------------------------
\* Specification of Reload requests on several management connections
\* ------------------------------------------------------------------------
\* management/mod.rs:103-109: a connection's task parses a "Reload" line
reloads_request(c) ==
    /\ rrPc[c] = "idle"
    /\ rrPc' = [rrPc EXCEPT ![c] = "requested"]
    /\ UNCHANGED <<rrBuilt, rrLast, lockWriter, services, errors>>
    /\ UNCHANGED <<lockReaders, reloadPc, lastLoad, published, callPc>>
    /\ UNCHANGED <<stateDir, stateDirStatus, dirOrder, loadsSinceChange, reloads, reloadReply>>
    /\ UNCHANGED <<lookupVars, responderVars, httpVars, protocolVars, sessionVars, leafVars, tlsVars, staticVars, proxyVars, configVars, supervisorVars, logVars, scopeVars, ctlVars>>

\* management/mod.rs:134-135: state.write()
reloads_lock(c) ==
    /\ rrPc[c] = "requested"
    /\ CanWrite(lockWriter, lockReaders)
    /\ lockWriter' = TRUE
    /\ rrLast' = c
    /\ rrPc' = [rrPc EXCEPT ![c] = "locked"]
    /\ UNCHANGED <<rrBuilt, services, errors>>
    /\ UNCHANGED <<lockReaders, reloadPc, lastLoad, published, callPc>>
    /\ UNCHANGED <<stateDir, stateDirStatus, dirOrder, loadsSinceChange, reloads, reloadReply>>
    /\ UNCHANGED <<lookupVars, responderVars, httpVars, protocolVars, sessionVars, leafVars, tlsVars, staticVars, proxyVars, configVars, supervisorVars, logVars, scopeVars, ctlVars>>

\* state.rs:174-180: read_dir starts the scan
reloads_scan_begin(c) ==
    /\ rrPc[c] = "locked"
    /\ rrPc' = [rrPc EXCEPT ![c] = "scanning"]
    /\ UNCHANGED <<rrBuilt, rrLast, lockWriter, services, errors>>
    /\ UNCHANGED <<lockReaders, reloadPc, lastLoad, published, callPc>>
    /\ UNCHANGED <<stateDir, stateDirStatus, dirOrder, loadsSinceChange, reloads, reloadReply>>
    /\ UNCHANGED <<lookupVars, responderVars, httpVars, protocolVars, sessionVars, leafVars, tlsVars, staticVars, proxyVars, configVars, supervisorVars, logVars, scopeVars, ctlVars>>

\* state.rs:177-200: the entries are parsed into the locals services and
\* errors; a failure of read_dir or of an entry returns at once
reloads_scan_end(c) ==
    /\ rrPc[c] = "scanning"
    /\ LET built == load_services([services |-> services, errors |-> errors],
                                  stateDir, dirOrder, stateDirStatus)
       IN /\ rrBuilt' = [rrBuilt EXCEPT ![c] = built]
          /\ rrPc' = [rrPc EXCEPT ![c] = IF built.ok THEN "scanned" ELSE "done"]
    /\ UNCHANGED <<rrLast, lockWriter, services, errors>>
    /\ UNCHANGED <<lockReaders, reloadPc, lastLoad, published, callPc>>
    /\ UNCHANGED <<stateDir, stateDirStatus, dirOrder, loadsSinceChange, reloads, reloadReply>>
    /\ UNCHANGED <<lookupVars, responderVars, httpVars, protocolVars, sessionVars, leafVars, tlsVars, staticVars, proxyVars, configVars, supervisorVars, logVars, scopeVars, ctlVars>>

\* state.rs:202-203: self.errors = errors; self.services = services
reloads_assign(c) ==
    /\ rrPc[c] = "scanned"
    /\ errors' = rrBuilt[c].errors
    /\ services' = rrBuilt[c].services
    /\ rrPc' = [rrPc EXCEPT ![c] = "done"]
    /\ UNCHANGED <<rrBuilt, rrLast, lockWriter>>
    /\ UNCHANGED <<lockReaders, reloadPc, lastLoad, published, callPc>>
    /\ UNCHANGED <<stateDir, stateDirStatus, dirOrder, loadsSinceChange, reloads, reloadReply>>
    /\ UNCHANGED <<lookupVars, responderVars, httpVars, protocolVars, sessionVars, leafVars, tlsVars, staticVars, proxyVars, configVars, supervisorVars, logVars, scopeVars, ctlVars>>

\* management/mod.rs:136-140: handle_reload_state returns and the write
\* guard is dropped
reloads_return(c) ==
    /\ rrPc[c] = "done"
    /\ lockWriter' = FALSE
    /\ rrPc' = [rrPc EXCEPT ![c] = "idle"]
    /\ UNCHANGED <<rrBuilt, rrLast, services, errors>>
    /\ UNCHANGED <<lockReaders, reloadPc, lastLoad, published, callPc>>
    /\ UNCHANGED <<stateDir, stateDirStatus, dirOrder, loadsSinceChange, reloads, reloadReply>>
    /\ UNCHANGED <<lookupVars, responderVars, httpVars, protocolVars, sessionVars, leafVars, tlsVars, staticVars, proxyVars, configVars, supervisorVars, logVars, scopeVars, ctlVars>>

InitReloads ==
    /\ LookupIdle
    /\ ResponderStarted
    /\ RegistryEmpty
    /\ HttpIdle
    /\ LockFree
    /\ ProtocolIdle
    /\ SessionOpen
    /\ LeafIdle
    /\ TlsStarted
    /\ StaticIdle
    /\ ProxyIdle
    /\ ConfigIdle
    /\ SupervisorIdle
    /\ LogIdle
    /\ ScopeIdle
    /\ ReloadsIdle
    /\ CtlIdle

NextReloads ==
    \/ \E node \in {DirNode("/srv/blog"), FileNode(Line_proxy_3000), Absent} :
            StateDirChanges(File_blog, node, dirOrder)
    \/ \E status \in {"ok", "unreadable"} : StateDirStatusChanges(status)
    \/ \E c \in 1..MaxReloaders : reloads_request(c)
    \/ \E c \in 1..MaxReloaders : reloads_lock(c)
    \/ \E c \in 1..MaxReloaders : reloads_scan_begin(c)
    \/ \E c \in 1..MaxReloaders : reloads_scan_end(c)
    \/ \E c \in 1..MaxReloaders : reloads_assign(c)
    \/ \E c \in 1..MaxReloaders : reloads_return(c)

SpecReloads == InitReloads /\ [][NextReloads]_vars

\* ------------------------------------------------------------------------
\* Specification of the configuration client with a running server
\* ------------------------------------------------------------------------
\* bin/duwopctl.rs: link, proxy or delete is invoked
ctl_start(cmd) ==
    /\ ctlPc = "idle"
    /\ ctlCount < MaxCommands
    /\ ctlCount' = ctlCount + 1
    /\ ctlCmd' = cmd
    /\ ctlBefore' = stateDir
    /\ ctlResult' = "none"
    /\ ctlPc' = "change"
    /\ UNCHANGED ctlSent
    /\ UNCHANGED registryVars
    /\ UNCHANGED <<lookupVars, responderVars, httpVars, lockVars, protocolVars, sessionVars, leafVars, tlsVars, staticVars, proxyVars, configVars, supervisorVars, logVars, scopeVars, reloadsVars>>

\* client/mod.rs:63-64, 97-98, 115-119: the change of the state directory;
\* its error ends the command
ctl_change ==
    /\ ctlPc = "change"
    /\ LET changed == change_state_dir(ctlCmd, stateDir)
       IN /\ stateDir' = changed.dir
          /\ loadsSinceChange' = IF changed.ok THEN 0 ELSE loadsSinceChange
          /\ ctlPc' = IF changed.ok THEN "reload" ELSE "idle"
          /\ ctlResult' = IF changed.ok THEN "none" ELSE "err"
    /\ UNCHANGED <<ctlCmd, ctlBefore, ctlSent, ctlCount>>
    /\ UNCHANGED <<stateDirStatus, dirOrder, reloads, services, errors, reloadReply>>
    /\ UNCHANGED <<lookupVars, responderVars, httpVars, lockVars, protocolVars, sessionVars, leafVars, tlsVars, staticVars, proxyVars, configVars, supervisorVars, logVars, scopeVars, reloadsVars>>

\* client/mod.rs:65-67, 100, 120 reload_server_configuration: the request
\* is written to the management connection (management/client.rs:21-36),
\* the server handles it (management/mod.rs:133-140) and its response
\* decides the result (client/mod.rs:353-366); a server that is not
\* listening fails the connect
ctl_reload(up) ==
    /\ ctlPc = "reload"
    /\ LET loaded == load_services([services |-> services, errors |-> errors],
                                   stateDir, dirOrder, stateDirStatus)
       IN IF up
          THEN /\ ctlSent' = ctlSent + 1
               /\ services' = loaded.services
               /\ errors' = loaded.errors
               /\ reloadReply' = IF loaded.ok THEN "Done" ELSE "Error"
               /\ loadsSinceChange' = IF loaded.ok THEN loadsSinceChange + 1
                                      ELSE loadsSinceChange
               /\ ctlResult' = IF loaded.ok THEN "ok" ELSE "err"
          ELSE /\ ctlResult' = "err"
               /\ UNCHANGED <<ctlSent, services, errors, reloadReply, loadsSinceChange>>
    /\ ctlPc' = "idle"
    /\ UNCHANGED <<ctlCmd, ctlBefore, ctlCount>>
    /\ UNCHANGED <<stateDir, stateDirStatus, dirOrder, reloads>>
    /\ UNCHANGED <<lookupVars, responderVars, httpVars, lockVars, protocolVars, sessionVars, leafVars, tlsVars, staticVars, proxyVars, configVars, supervisorVars, logVars, scopeVars, reloadsVars>>

InitCtl ==
    /\ LookupIdle
    /\ ResponderStarted
    /\ RegistryEmpty
    /\ HttpIdle
    /\ LockFree
    /\ ProtocolIdle
    /\ SessionOpen
    /\ LeafIdle
    /\ TlsStarted
    /\ StaticIdle
    /\ ProxyIdle
    /\ ConfigIdle
    /\ SupervisorIdle
    /\ LogIdle
    /\ ScopeIdle
    /\ ReloadsIdle
    /\ CtlIdle

NextCtl ==
    \/ \E cmd \in Commands : ctl_start(cmd)
    \/ ctl_change
    \/ \E up \in BOOLEAN : ctl_reload(up)
    \/ \E status \in {"ok", "unreadable"} : StateDirStatusChanges(status)

SpecCtl == InitCtl /\ [][NextCtl]_vars

\* a well-formed query: the request passes the checks of dns/mod.rs:57-75
WellFormed(request) ==
    /\ request.questions # <<>>
    /\ ~request.header.response
    /\ request.header.opcode = 0

\* the first question of the request handed to lookup
FirstQuestion == lkRequest.questions[1]

\* "the name ends in .test", stated on the characters: some prefix followed
\* by the five characters of ".test"
NameEndsInDotTest(name) ==
    \E k \in 0..Len(name) : name = SubSeq(name, 1, k) \o <<".","t","e","s","t">>

\* ------------------------------------------------------------------------
\* Properties of the lookup
\* ------------------------------------------------------------------------

\* C1: a well-formed type A query for a name ending in ".test" is answered
\* NOERROR with exactly one answer: an A record 127.0.0.1, TTL 0, whose
\* domain is the question's name.
C1_TestNameGetsLoopbackA ==
    (/\ lkPhase = "answered"
     /\ WellFormed(lkRequest)
     /\ FirstQuestion.qtype = "A"
     /\ NameEndsInDotTest(FirstQuestion.name))
    => /\ lkResponse.header.rescode = "NOERROR"
       /\ lkResponse.answers =
            <<[rtype |-> "A", addr |-> <<127, 0, 0, 1>>,
               domain |-> FirstQuestion.name, ttl |-> 0]>>

C1_Witness ==
    /\ lkPhase = "answered"
    /\ WellFormed(lkRequest)
    /\ FirstQuestion = [name |-> Name_sub_a_test, qtype |-> "A"]
    /\ Len(lkResponse.answers) = 1
    /\ lkResponse.answers[1].domain = Name_sub_a_test

\* C2: a well-formed query whose first name does not end with ".test" is
\* answered SERVFAIL with no answers, whatever its type.
C2_OtherDomainServfail ==
    (/\ lkPhase = "answered"
     /\ WellFormed(lkRequest)
     /\ ~NameEndsInDotTest(FirstQuestion.name))
    => /\ lkResponse.header.rescode = "SERVFAIL"
       /\ lkResponse.answers = <<>>

C2_Witness ==
    /\ lkPhase = "answered"
    /\ WellFormed(lkRequest)
    /\ FirstQuestion = [name |-> Name_a_com, qtype |-> "A"]
    /\ lkResponse.header.rescode = "SERVFAIL"

\* C3: the suffix check is case-insensitive: a well-formed type A query whose
\* name ends in ".test" in any letter case is answered NOERROR with one
\* A 127.0.0.1 answer, never SERVFAIL.
C3_SuffixCheckIgnoresCase ==
    (/\ lkPhase = "answered"
     /\ WellFormed(lkRequest)
     /\ FirstQuestion.qtype = "A"
     /\ NameEndsInDotTest(ToLower(FirstQuestion.name)))
    => /\ lkResponse.header.rescode = "NOERROR"
       /\ Len(lkResponse.answers) = 1
       /\ lkResponse.answers[1].addr = <<127, 0, 0, 1>>

\* C4: no questions, a set response flag or a non-zero opcode each give
\* NOTIMP with no answers, before the domain and the type are looked at.
C4_MalformedIsNotImp ==
    (/\ lkPhase = "answered"
     /\ \/ lkRequest.questions = <<>>
        \/ lkRequest.header.response
        \/ lkRequest.header.opcode # 0)
    => /\ lkResponse.header.rescode = "NOTIMP"
       /\ lkResponse.answers = <<>>

C4_Witness ==
    /\ lkPhase = "answered"
    /\ lkRequest.header.response
    /\ lkRequest.header.opcode = 0
    /\ lkRequest.questions # <<>>
    /\ FirstQuestion = [name |-> Name_a_com, qtype |-> "A"]
    /\ lkResponse.header.rescode = "NOTIMP"

\* C5: for a well-formed query on a name ending in ".test", the types AAAA,
\* CNAME, MX, NS and SOA give NOERROR with no answers and every other type
\* except A gives SERVFAIL with no answers.
C5_OtherTypes ==
    (/\ lkPhase = "answered"
     /\ WellFormed(lkRequest)
     /\ NameEndsInDotTest(FirstQuestion.name)
     /\ FirstQuestion.qtype # "A")
    => /\ lkResponse.answers = <<>>
       /\ lkResponse.header.rescode =
            IF FirstQuestion.qtype \in {"AAAA", "CNAME", "MX", "NS", "SOA"}
            THEN "NOERROR" ELSE "SERVFAIL"

C5_Witness ==
    /\ lkPhase = "answered"
    /\ WellFormed(lkRequest)
    /\ FirstQuestion = [name |-> Name_a_test, qtype |-> "UNKNOWN"]
    /\ lkResponse.header.rescode = "SERVFAIL"

\* C6: every response echoes the request's id and recursion-desired bit, has
\* the response flag set, and carries exactly the request's first question
\* when the request has one.
C6_EchoedFields ==
    lkPhase = "answered"
    => /\ lkResponse.header.id = lkRequest.header.id
       /\ lkResponse.header.recursion_desired = lkRequest.header.recursion_desired
       /\ lkResponse.header.response
       /\ lkRequest.questions # <<>>
            => lkResponse.questions = <<lkRequest.questions[1]>>

C6_Witness ==
    /\ lkPhase = "answered"
    /\ lkRequest.header.id = 1234
    /\ lkRequest.header.recursion_desired
    /\ Len(lkRequest.questions) = 2
    /\ lkResponse.header.rescode = "SERVFAIL"
    /\ lkResponse.header.id = 1234
    /\ Len(lkResponse.questions) = 1

\* ------------------------------------------------------------------------
\* Properties of the responder task
\* ------------------------------------------------------------------------

\* the responses sent for datagram d to d's sender
ResponsesTo(d) ==
    {i \in DOMAIN dnsSent : dnsSent[i].seq = d.seq /\ dnsSent[i].peer = d.peer}

\* C7: no request is dropped: once poll has taken a datagram that parses and
\* whose response can be encoded, and no socket error has ended the task,
\* exactly one response has gone to the datagram's sender, also when the
\* socket was not ready for sending.
C7_NoRequestDropped ==
    \A d \in dnsTaken :
        (d.payload.parses /\ d.payload.fits /\ dnsStatus = "running")
        => Cardinality(ResponsesTo(d)) = 1

\* C8: after a failure writing a response to the socket the responder task
\* keeps running; the failure is only logged.
C8_SendFailureKeepsRunning ==
    sendFailed => (dnsStatus = "running" /\ dnsErrorLogged)

\* ------------------------------------------------------------------------
\* Properties of the HTTP dispatch
\* ------------------------------------------------------------------------

\* the request's Host header is "<key>.test" for a host label key (visible
\* ASCII, no ':' that would start a port)
HostIsKeyDotTest(req, key) ==
    /\ req.hasHost
    /\ req.host = key \o <<".","t","e","s","t">>
    /\ \A i \in 1..Len(key) : key[i] # ":" /\ key[i] # NonAsciiChar

\* the prefixes of the Host headers of the model
KeyCandidates == UNION {{SubSeq(h, 1, k) : k \in 0..Len(h)} : h \in Hosts}

C10_BadHostIs500 ==
    (/\ httpCalls > 0
     /\ \/ ~httpReq.hasHost
        \/ ~NameEndsInDotTest(BeforeColon(httpReq.host)))
    => /\ httpOut.future = "ErrorResponse"
       /\ httpOut.status = 500

C10_Witness ==
    /\ httpCalls > 0
    /\ httpReq.hasHost
    /\ httpReq.host = Host_blog_com_80
    /\ DOMAIN services # {}
    /\ httpOut.future = "ErrorResponse"
    /\ httpOut.status = 500

\* the future `out` is the one the dispatch builds for the registry entry
ServedBy(out, entry) ==
    CASE entry.kind = "StaticFiles" ->
            out.future = "Static" /\ out.root = entry.path
      [] entry.kind = "ReverseProxy" ->
            out.future = "ReverseProxy" /\ out.target = entry.addr
      [] entry.kind = "InvalidConfig" ->
            out.future = "ErrorResponse" /\ out.status = 500 /\ out.body = entry.message

\* the ports a client may append to the Host header
Ports == {<<"8","0">>, <<"8","0","8","0">>}

\* C11: for every name N of the registry and every port p, a request with
\* Host "<N>.test:<p>" is dispatched to N's entry, as Host "<N>.test" is.
C11_PortIsStripped ==
    [][ httpCalls' = httpCalls + 1 =>
        \A N \in DOMAIN services : \A p \in Ports :
            (/\ httpReq'.hasHost
             /\ httpReq'.host = N \o <<".","t","e","s","t",":">> \o p)
            => ServedBy(httpOut', services[N])
      ]_vars

C11_Witness ==
    /\ httpCalls > 0
    /\ httpReq.hasHost
    /\ httpReq.host = Host_blog_test_8080
    /\ httpOut.future = "ReverseProxy"
    /\ httpOut.target = [ip |-> <<127, 0, 0, 1>>, port |-> 3000]

\* C12: the Host header is lowercased before matching: for a (lowercase)
\* registry key N, a request whose Host differs from "<N>.test" only in letter
\* case is dispatched to N's entry.
C12_HostIsLowercased ==
    [][ httpCalls' = httpCalls + 1 =>
        \A N \in DOMAIN services :
            (/\ N = ToLower(N)
             /\ httpReq'.hasHost
             /\ ToLower(httpReq'.host) = N \o <<".","t","e","s","t">>)
            => ServedBy(httpOut', services[N])
      ]_vars

\* ------------------------------------------------------------------------
\* Properties of the registry reload
\* ------------------------------------------------------------------------

\* the step is the handling of one Reload request
ReloadStep == reloads' = reloads + 1

\* the entries of the state directory that parse to a service
ParsedNames ==
    {n \in FileNames : stateDir[n] # Absent /\ n.utf8 /\ stateDir[n].type # "unreadable"}

\* how many times diagnostic e occurs in the list
Occurrences(list, e) == Cardinality({i \in DOMAIN list : list[i] = e})

\* C13: after a successful load the registry is exactly the per-entry parse
\* of the state directory as it is at that time: no key of an earlier
\* snapshot survives unless the directory still has it.
C13_ReloadEqualsDirectory ==
    [][ (ReloadStep /\ reloadReply' = "Done") =>
        /\ DOMAIN services' = {n.chars : n \in ParsedNames}
        /\ \A n \in ParsedNames : services'[n.chars] = parse_config(stateDir[n]).service
      ]_vars

C13_Witness ==
    /\ reloads = MaxReloads
    /\ reloadReply = "Done"
    /\ loadsSinceChange = 1
    /\ stateDir[File_blog] = Absent
    /\ stateDir[File_Blog] # Absent
    /\ DOMAIN services = {File_Blog.chars}

\* C14: a load that fails, because the state directory cannot be read or
\* because iterating it yields an error, leaves services and diagnostics as
\* they were, and the Reload is answered with an error.
C14_FailedReloadKeepsSnapshot ==
    [][ (ReloadStep /\ stateDirStatus # "ok") =>
        /\ services' = services
        /\ errors' = errors
        /\ reloadReply' = "Error"
      ]_vars

C14_Witness ==
    /\ reloads > 0
    /\ reloadReply = "Error"
    /\ stateDirStatus = "entry_error"
    /\ DOMAIN services # {}
    /\ errors # <<>>

\* C15: a successful load that follows a successful load, with no change of
\* the state directory in between, leaves services and diagnostics equal.
C15_ReloadIdempotent ==
    [][ (ReloadStep /\ loadsSinceChange >= 1 /\ reloadReply' = "Done") =>
        /\ services' = services
        /\ errors' = errors
      ]_vars

C15_Witness ==
    /\ reloads = MaxReloads
    /\ loadsSinceChange = 2
    /\ reloadReply = "Done"
    /\ Len(errors) = 2
    /\ DOMAIN services # {}

\* C16: an entry that cannot be read does not abort the load: the load
\* succeeds, the entry gets no key and exactly one IoError diagnostic, and
\* every other entry is parsed and published.
C16_UnreadableEntryIsRecorded ==
    [][ (ReloadStep /\ stateDirStatus = "ok") =>
        \A n \in FileNames :
            (n.utf8 /\ stateDir[n].type = "unreadable") =>
                /\ reloadReply' = "Done"
                /\ n.chars \notin DOMAIN services'
                /\ Occurrences(errors', [kind |-> "IoError", name |-> n]) = 1
                /\ \A m \in ParsedNames :
                        /\ m.chars \in DOMAIN services'
                        /\ services'[m.chars] = parse_config(stateDir[m]).service
      ]_vars

C16_Witness ==
    /\ reloads > 0
    /\ reloadReply = "Done"
    /\ loadsSinceChange = 1
    /\ stateDir[File_a_b] = Unreadable
    /\ errors = <<IoError(File_a_b)>>
    /\ DOMAIN services = {File_blog.chars}

LabelChars ==
    {UpperLetters[i] : i \in 1..Len(UpperLetters)}
    \cup {LowerLetters[i] : i \in 1..Len(LowerLetters)}
    \cup {Digits[i] : i \in 1..Len(Digits)}
    \cup {"-"}

\* C18: in every reachable state every key of the registry matches
\* [A-Za-z0-9-]+ : it is not empty and has no dot or other character.
C18_KeysAreLabels ==
    \A key \in DOMAIN services :
        /\ Len(key) >= 1
        /\ \A i \in 1..Len(key) : key[i] \in LabelChars

\* ------------------------------------------------------------------------
\* Properties of the registry behind its lock
\* ------------------------------------------------------------------------

\* C19: while a request handler holds its read guard, the AppState it sees
\* is the one published by the last completed load: the services map and
\* the diagnostics belong together and no load is part-way through its
\* assignments.
C19_ReaderSeesWholeSnapshot ==
    callPc = "locked" =>
        /\ reloadPc \in {"idle", "requested", "returned"}
        /\ [services |-> services, errors |-> errors] = published

\* a handler holds its guard while a Reload is waiting for the lock and the
\* directory has already changed
C19_Witness ==
    /\ callPc = "locked"
    /\ reloadPc = "requested"
    /\ reloads = MaxReloads
    /\ DOMAIN services # {}
    /\ errors # <<>>
    /\ load_services([services |-> services, errors |-> errors],
                     stateDir, dirOrder, stateDirStatus)
         = [ok |-> TRUE, services |-> EmptyRegistry, errors |-> <<>>]

\* C20: the OK of a Reload is written only after the registry that load
\* built has been assigned and the write guard released; a lookup made
\* after the client has the OK, and before another Reload is sent, is
\* answered from that registry.
C20_OkFollowsPublication ==
    [][ /\ (reloadPc # "idle" /\ reloadPc' = "idle" /\ reloadReply' = "Done") =>
                /\ ~lockWriter
                /\ services = lastLoad.services
                /\ errors = lastLoad.errors
        /\ (httpCalls' = httpCalls + 1 /\ reloadPc = "idle" /\ reloadReply = "Done") =>
                httpOut' = call(lastLoad.services, httpReq)
      ]_vars

\* a name added before the Reload is served once the OK has been received
C20_Witness ==
    /\ reloadPc = "idle"
    /\ reloadReply = "Done"
    /\ reloads = 1
    /\ httpCalls = 1
    /\ callPc = "idle"
    /\ httpReq.host = Host_blog_test
    /\ httpOut = StaticFuture("/srv/blog")

\* ------------------------------------------------------------------------
\* Properties of the management protocol
\* ------------------------------------------------------------------------

\* the seven request forms: Reload, Log reset, Log debug, Log trace,
\* Log custom <spec>, Status, ReloadSsl
SevenForms(line) ==
    \/ line \in {Word_Reload, Word_Status, Word_ReloadSsl}
    \/ line \in {Word_Log \o <<" ">> \o w : w \in {Word_reset, Word_debug, Word_trace}}
    \/ /\ Len(line) >= 11
       /\ SubSeq(line, 1, 11) = Word_Log \o <<" ">> \o Word_custom \o <<" ">>

\* C22: Request::parse succeeds only on the seven request forms; every
\* other line, a no-argument command followed by arguments included, is an
\* error.
C22_OnlySevenForms ==
    (mgPhase = "parsed" /\ mgResult.ok) => SevenForms(mgLine)

\* C23: parsing the serialization of a Request gives back that Request.
C23_RoundTrip ==
    (mgPhase = "parsed" /\ mgRequest # NoParsedRequest) =>
        mgResult = ParseOk(mgRequest)

\* a custom level whose value has spaces and ends in one has gone round
C23_Witness ==
    /\ mgPhase = "parsed"
    /\ mgRequest = SetLogLevel_Custom(Word_info \o <<" ">> \o Word_debug \o <<" ">>)
    /\ mgResult.ok
    /\ mgResult.request.value = Word_info \o <<" ">> \o Word_debug \o <<" ">>

\* ------------------------------------------------------------------------
\* Properties of the management session
\* ------------------------------------------------------------------------

\* the bytes end in a newline and hold no other
OneLine(bytes) ==
    /\ Len(bytes) >= 1
    /\ Positions(bytes, "\n") = {Len(bytes)}

StartsWith(s, prefix) ==
    /\ Len(s) >= Len(prefix)
    /\ SubSeq(s, 1, Len(prefix)) = prefix

\* what the server makes of a line the client sent: a "\r" before the
\* newline belongs to the line ending
AsRead(line) ==
    IF Len(line) > 0 /\ line[Len(line)] = "\r" THEN SubSeq(line, 1, Len(line) - 1)
    ELSE line

C25_SanCoversNames ==
    leafPhase = "minted" =>
        IF Len(leafNames) = 0 THEN leafSan = <<DuwopTest>>
        ELSE /\ Len(leafSan) = 2 * Len(leafNames)
             /\ \A i \in 1..Len(leafNames) :
                    /\ \E j \in 1..Len(leafSan) : leafSan[j] = leafNames[i] \o DotTest
                    /\ \E j \in 1..Len(leafSan) :
                            leafSan[j] = <<"*", ".">> \o leafNames[i] \o DotTest
             /\ \A j \in 1..Len(leafSan) : \E i \in 1..Len(leafNames) :
                    \/ leafSan[j] = leafNames[i] \o DotTest
                    \/ leafSan[j] = <<"*", ".">> \o leafNames[i] \o DotTest

\* the leaf of the test test_mk_ca_signed_cert_with_names
C25_Witness ==
    /\ leafPhase = "minted"
    /\ leafNames = <<Name_hello, Name_world>>
    /\ Len(leafSan) = 4
    /\ leafSan[1] = <<"h","e","l","l","o",".","t","e","s","t">>
    /\ leafSan[4] = <<"*",".","w","o","r","l","d",".","t","e","s","t">>

\* ------------------------------------------------------------------------
\* Replacement of the TLS leaf
\* ------------------------------------------------------------------------
\* the response line of a ReloadSsl request
SslOkLine == <<"O","K",":"," ">> \o SslReplacementInitiated \o <<"\n">>

\* the number of ReloadSsl requests answered so far
SslAnswered == Cardinality({i \in 1..Len(sessOut) : sessOut[i] = SslOkLine})

\* the names san covers are exactly those of the registry
CoversRegistry(san, registry) ==
    IF DOMAIN registry = {} THEN san = <<DuwopTest>>
    ELSE /\ Len(san) = 2 * Cardinality(DOMAIN registry)
         /\ \A name \in DOMAIN registry :
                /\ \E j \in 1..Len(san) : san[j] = name \o DotTest
                /\ \E j \in 1..Len(san) : san[j] = <<"*", ".">> \o name \o DotTest

\* C24: a ReloadSsl request is answered "OK: Ssl replacement initiated.
\* Please check." at once; when there is an HTTPS server each answered
\* request is eventually followed by one more leaf in the slot, the leaf is
\* minted for the names the registry holds at the time it is minted, the
\* acceptor swapped in presents that leaf, and a connection accepted after
\* a swap presents the names of the leaf swapped in.
C24_ReloadSslRegenerates ==
    /\ [](\A i \in 1..Len(sessOut) :
            (Request_parse(AsRead(sessLines[i])).ok
             /\ Request_parse(AsRead(sessLines[i])).request.kind = "ReloadSsl")
                => sessOut[i] = SslOkLine)
    /\ [][(tlsPending' # tlsPending /\ tlsPending' # NoAcceptor)
            => CoversRegistry(tlsPending'.san, services)]_vars
    /\ [][tlsMinted' # tlsMinted
            => /\ tlsMinted' = tlsMinted + 1
               /\ tlsSlot'.cert = tlsMinted'
               /\ tlsSlot'.san = tlsPending.san]_vars
    /\ \A n \in 1..MaxSslLines :
            (httpsEnabled /\ SslAnswered >= n) ~> (tlsMinted >= n)
    /\ [](\A i \in 1..Len(tlsConns) :
            tlsConns[i].minted >= 1 => tlsConns[i].acceptor.san = tlsConns[i].slot.san)

\* the part of C24 up to the swap: the answer, the leaf minted from the
\* registry of that time, the swap, and that each answered request is
\* eventually followed by a swap
ReloadSslReachesSlot ==
    /\ [](\A i \in 1..Len(sessOut) :
            (Request_parse(AsRead(sessLines[i])).ok
             /\ Request_parse(AsRead(sessLines[i])).request.kind = "ReloadSsl")
                => sessOut[i] = SslOkLine)
    /\ [][(tlsPending' # tlsPending /\ tlsPending' # NoAcceptor)
            => CoversRegistry(tlsPending'.san, services)]_vars
    /\ [][tlsMinted' # tlsMinted
            => /\ tlsMinted' = tlsMinted + 1
               /\ tlsSlot'.cert = tlsMinted'
               /\ tlsSlot'.san = tlsPending.san]_vars
    /\ \A n \in 1..MaxSslLines :
            (httpsEnabled /\ SslAnswered >= n) ~> (tlsMinted >= n)

\* a ReloadSsl request sent after a reload put blog into the registry was
\* answered and the leaf minted for it is in the slot
ReloadSslReachesSlot_Witness ==
    /\ httpsEnabled
    /\ SslAnswered = 1
    /\ tlsMinted = 1
    /\ tlsSlot.san = <<File_blog.chars \o DotTest, <<"*", ".">> \o File_blog.chars \o DotTest>>
    /\ DOMAIN services = {File_blog.chars}

\* C26: each HTTPS connection was accepted with the acceptor that was in
\* the shared slot when it was accepted, that acceptor presents the
\* certificate and the key of one leaf, and an accepted connection keeps
\* its acceptor.
C26_AcceptorPerConnection ==
    /\ [](\A i \in 1..Len(tlsConns) :
            /\ tlsConns[i].acceptor.cert = tlsConns[i].acceptor.key
            /\ tlsConns[i].acceptor = tlsConns[i].slot)
    /\ [](tlsSlot.cert = tlsSlot.key)
    /\ [][/\ Len(tlsConns') >= Len(tlsConns)
          /\ \A i \in 1..Len(tlsConns) : tlsConns'[i] = tlsConns[i]]_vars

\* ------------------------------------------------------------------------
\* Static files
\* ------------------------------------------------------------------------
\* path names a file or a directory and none of its components is a link
ExistsCanonical(path) == path \in FsDirs \cup FsFiles

\* C27: a path returned by local_path_for_request exists, is canonical and
\* lies under the canonical root of the service (or is the root), whatever
\* ".." segments and symbolic links the request goes through.
C27_ResolvedUnderRoot ==
    stPath.some =>
        /\ ExistsCanonical(stPath.path)
        /\ canonicalize(stRoot).ok
        /\ Len(stPath.path) >= Len(canonicalize(stRoot).path)
        /\ \A i \in 1..Len(canonicalize(stRoot).path) :
                stPath.path[i] = canonicalize(stRoot).path[i]

\* /sub/../index.html below /srv/blog is resolved to /srv/blog/index.html
C27_Witness ==
    /\ stRoot = <<"srv", "blog">>
    /\ stRequest = <<"/", "sub", "/", "..", "/", "index.html">>
    /\ stPath = SomePath(<<"srv", "blog", "index.html">>)

\* a request that goes out of the root through ".." or through the link
\* out, and whose target exists
EscapesRoot ==
    /\ stRequest # <<>>
    /\ Head(stRequest) = "/"
    /\ canonicalize(JoinedPath(stRequest, stRoot)).ok
    /\ ~Path_starts_with(canonicalize(JoinedPath(stRequest, stRoot)).path, stRoot)

\* C28: once serve has looked at the request, a path that does not begin
\* with "/", that does not exist or that leaves the root is answered 404;
\* a 500 is given only after a local path was found and File::open failed.
C28_NotFoundNever500 ==
    /\ (stPhase # "asked"
        /\ \/ stRequest = <<>>
           \/ Head(stRequest) # "/"
           \/ ~canonicalize(JoinedPath(stRequest, stRoot)).ok
           \/ EscapesRoot)
            => (stPhase = "done" /\ stStatus = 404)
    /\ stStatus = 500 => (stPath.some /\ stOpen = "failed")

\* /out/secret.txt leaves /srv/blog through the link and was answered 404
C28_Witness ==
    /\ stRoot = <<"srv", "blog">>
    /\ stRequest = <<"/", "out", "/", "secret.txt">>
    /\ EscapesRoot
    /\ stPhase = "done"
    /\ stStatus = 404

\* a file that was found and could not be opened was answered 500
C28_Witness500 ==
    /\ stRequest = <<"/", "index.html">>
    /\ stPath.some
    /\ stOpen = "failed"
    /\ stStatus = 500

\* ------------------------------------------------------------------------
\* Reverse proxy
\* ------------------------------------------------------------------------
\* C29: the request given upstream has the URI
\* http://127.0.0.1:<port><path>[?<query>] with the path and query of the
\* incoming request, the client's IP appended to X-Forwarded-For and the
\* client's port appended to X-Forwarded-Port, and the method, the body
\* and every other header of the incoming request.
C29_UpstreamRequest ==
    pxPhase \in {"forwarded", "done", "failed"} =>
        /\ pxUpstream.uri.scheme = "http://"
        /\ Head(pxUpstream.uri.authority) = "127.0.0.1"
        /\ pxUpstream.uri.authority[2] = ":"
        /\ DecimalValue(SubSeq(pxUpstream.uri.authority, 3, Len(pxUpstream.uri.authority)))
                = pxTarget.port
        /\ pxUpstream.uri.path = pxReq.path
        /\ pxUpstream.uri.query = pxReq.query
        /\ pxUpstream.headers["x-forwarded-for"]
                = pxReq.headers["x-forwarded-for"] \o <<<<pxRemote.ip>>>>
        /\ LET ports == pxUpstream.headers["x-forwarded-port"]
           IN /\ Len(ports) = Len(pxReq.headers["x-forwarded-port"]) + 1
              /\ SubSeq(ports, 1, Len(ports) - 1) = pxReq.headers["x-forwarded-port"]
              /\ DecimalValue(ports[Len(ports)]) = pxRemote.port
        /\ \A n \in {"host", "accept"} : pxUpstream.headers[n] = pxReq.headers[n]
        /\ pxUpstream.method = pxReq.method
        /\ pxUpstream.body = pxReq.body

\* POST /x?q=1 from 192.168.1.7:80, already carrying X-Forwarded-For, was
\* forwarded to port 3000
C29_Witness ==
    /\ pxPhase = "forwarded"
    /\ pxReq.method = "POST"
    /\ pxReq.headers["x-forwarded-for"] = <<<<"10.0.0.1">>>>
    /\ pxRemote = [ip |-> "192.168.1.7", port |-> 80]
    /\ pxUpstream.uri = [scheme |-> "http://", authority |-> <<"127.0.0.1", ":", "3", "0", "0", "0">>,
                         path |-> <<"/", "x">>, query |-> SomeQuery(<<"q", "=", "1">>)]
    /\ pxUpstream.headers["x-forwarded-for"] = <<<<"10.0.0.1">>, <<"192.168.1.7">>>>
    /\ pxUpstream.headers["x-forwarded-port"] = <<<<"8", "0">>>>

\* C30: the response for a successful upstream response has its status,
\* its body and its headers, with "<version> duwop-proxy" appended to Via,
\* and with Server: duwop exactly when the upstream response had no Server
\* header.
C30_ResponseRewrite ==
    pxPhase = "done" =>
        /\ pxOut.status = pxUpResp.status
        /\ pxOut.body = pxUpResp.body
        /\ pxOut.version = pxUpResp.version
        /\ pxOut.headers["content-type"] = pxUpResp.headers["content-type"]
        /\ Len(pxOut.headers["via"]) = Len(pxUpResp.headers["via"]) + 1
        /\ \A i \in 1..Len(pxUpResp.headers["via"]) :
                pxOut.headers["via"][i] = pxUpResp.headers["via"][i]
        /\ LET via == pxOut.headers["via"][Len(pxOut.headers["via"])]
           IN /\ via[2] = " " /\ via[3] = "duwop-proxy" /\ Len(via) = 3
              /\ (pxUpResp.version = "HTTP_09") = (via[1] = "0.9")
              /\ (pxUpResp.version = "HTTP_10") = (via[1] = "1.0")
              /\ (pxUpResp.version = "HTTP_11") = (via[1] = "1.1")
              /\ (pxUpResp.version = "HTTP_2") = (via[1] = "2.0")
        /\ IF pxUpResp.headers["server"] = <<>>
           THEN pxOut.headers["server"] = <<<<"duwop">>>>
           ELSE pxOut.headers["server"] = pxUpResp.headers["server"]

\* an HTTP/1.1 upstream response with Server: upstream came back with
\* Via: 1.1 duwop-proxy and its own Server header
C30_Witness ==
    /\ pxPhase = "done"
    /\ pxUpResp.version = "HTTP_11"
    /\ pxUpResp.headers["server"] = <<<<"upstream">>>>
    /\ pxUpResp.headers["via"] = <<>>
    /\ pxOut.status = 200
    /\ pxOut.headers["via"] = <<<<"1.1", " ", "duwop-proxy">>>>
    /\ pxOut.headers["server"] = <<<<"upstream">>>>

WrittenFirstLine ==
    LET ends == Positions(cfContent, "\n")
    IN trim_end(IF ends = {} THEN cfContent ELSE SubSeq(cfContent, 1, SetMin(ends) - 1))

\* the text after the last ":" of the first line
WrittenPort ==
    SubSeq(WrittenFirstLine, SetMax(Positions(WrittenFirstLine, ":")) + 1, Len(WrittenFirstLine))

\* C32: a ReverseProxy entry read from a file has the address 127.0.0.1
\* and the port written in the file, whatever host the file names.
C32_ProxyTargetIsLoopback ==
    (cfPhase = "parsed" /\ cfResult.ok /\ cfResult.service.kind = "ReverseProxy") =>
        /\ cfResult.service.addr.ip = LOCALHOST
        /\ cfResult.service.addr.port = DecimalValue(WrittenPort)

\* proxy:10.0.0.1:9999 gives 127.0.0.1:9999
C32_Witness ==
    /\ cfPhase = "parsed"
    /\ cfContent = Text_proxy \o <<":">> \o Text_10_0_0_1 \o <<":", "9", "9", "9", "9">>
    /\ cfResult = [ok |-> TRUE, service |-> ReverseProxy(LOCALHOST, 9999)]

\* C33: for a regular file that can be read parse_config returns a
\* service decided by the first line alone: ReverseProxy for proxy:<valid
\* address>, InvalidConfig "missing socket address" for proxy,
\* InvalidConfig "not a valid <host:port> ..." for an address that does not
\* parse, InvalidConfig "invalid directive ..." for any other first line;
\* never an I/O error.
C33_FirstLineDecides ==
    cfPhase = "parsed" =>
        /\ cfResult.ok
        /\ cfResult.service = parse_first_line(WrittenFirstLine)
        /\ cfResult.service.kind \in {"ReverseProxy", "InvalidConfig"}
        /\ WrittenFirstLine = Text_proxy =>
                cfResult.service = InvalidConfig("missing socket address", <<>>)
        /\ (Len(WrittenFirstLine) < 6 \/ SubSeq(WrittenFirstLine, 1, 6) # Text_proxy \o <<":">>)
            /\ WrittenFirstLine # Text_proxy =>
                /\ cfResult.service.kind = "InvalidConfig"
                /\ cfResult.service.message.text = "invalid directive: '{}'"

\* the files whose first line is text: the part of C33 that holds
FirstLineDecidesForText ==
    (cfPhase = "parsed" /\ \A i \in 1..Len(WrittenFirstLine) : WrittenFirstLine[i] # InvalidUtf8) =>
        /\ cfResult.ok
        /\ cfResult.service = parse_first_line(WrittenFirstLine)

\* ------------------------------------------------------------------------
\* Supervisor
\* ------------------------------------------------------------------------
\* C34: when one listener fails with an error the other listeners keep
\* running and the supervisor future does not complete.
C34_FailureIsolated ==
    \A l \in Listeners :
        svListeners[l] = "failed" =>
            /\ svFuture = "pending"
            /\ \A m \in Listeners \ {l} : svListeners[m] \in {"running", "absent"}

\* C35: once SIGINT or SIGTERM is delivered while listeners run the
\* supervisor future eventually completes; with no signal delivered it
\* completes only once the listeners that were joined have completed.
C35_SignalEndsSupervisor ==
    /\ \A sig \in TerminateSignals :
          (svSignal = sig /\ \E l \in Listeners : svListeners[l] = "running")
              ~> (svFuture # "pending")
    /\ [](svFuture # "pending" /\ svSignal = "none"
              => \A l \in Listeners : svListeners[l] \in {"absent", "finished", "failed"})

\* what holds of the race: a delivered signal ends the supervisor future,
\* and with no signal delivered it ends in the poll in which the join
\* ends, which is the poll in which the first listener fails
SignalOrJoinEndsSupervisor ==
    /\ \A sig \in TerminateSignals :
          (svSignal = sig /\ \E l \in Listeners : svListeners[l] = "running")
              ~> (svFuture # "pending")
    /\ [][(svFuture = "pending" /\ svFuture' # "pending" /\ svSignal = "none")
              => \E l \in Listeners : svListeners[l] = "running" /\ svListeners'[l] = "failed"]_vars

\* SIGTERM ended the supervisor while every listener was running and had
\* served
SignalEndsSupervisor_Witness ==
    /\ svSignal = "SIGTERM"
    /\ svFuture = "ok"
    /\ \A l \in Listeners : svListeners[l] = "dropped" /\ svAccepted[l] = MaxAccepts

\* ------------------------------------------------------------------------
\* Log level requests
\* ------------------------------------------------------------------------
\* the specification a "Log custom <spec>" line carries
CustomOf(line) == SubSeq(line, Len(Line_Log_custom) + 2, Len(line))

\* a specification every part of which is a level, a module or
\* module=level with a level name
WellFormedSpec(text) ==
    \A part \in {SplitOn(text, ",")[i] : i \in 1..Len(SplitOn(text, ","))} :
        \/ Positions(part, "=") = {}
        \/ /\ Cardinality(Positions(part, "=")) = 1
           /\ SubSeq(part, SetMin(Positions(part, "=")) + 1, Len(part)) \in LevelNames

\* C36: Log debug and Log trace put duwop=debug and duwop=trace in force,
\* Log reset the default the server was built with; a Log custom whose
\* specification does not parse is answered ERROR and leaves the
\* specification in force as it was.
C36_LogLevelRequests ==
    [][lgCount' # lgCount =>
        /\ lgLine' = Line_Log_debug => lgHandler' = Spec_duwop_debug /\ lgReply'.kind = "Done"
        /\ lgLine' = Line_Log_trace => lgHandler' = Spec_duwop_trace /\ lgReply'.kind = "Done"
        /\ lgLine' = Line_Log_reset => lgHandler' = lgDefault /\ lgReply'.kind = "Done"
        /\ (lgLine' \notin {Line_Log_debug, Line_Log_trace, Line_Log_reset}
                /\ ~WellFormedSpec(CustomOf(lgLine'))) =>
              lgHandler' = lgHandler /\ lgReply'.kind = "Error"
        /\ (lgLine' \notin {Line_Log_debug, Line_Log_trace, Line_Log_reset}
                /\ WellFormedSpec(CustomOf(lgLine'))) =>
              lgHandler' = CustomOf(lgLine') /\ lgReply'.kind = "Done"]_vars

\* a custom level was set and then a custom level that does not parse was
\* refused
C36_Witness ==
    /\ lgCount = 2
    /\ lgLine = Line_Log_custom \o <<" ">> \o Word_duwop \o <<"=">> \o Word_loud
    /\ lgReply.kind = "Error"
    /\ lgHandler = Spec_duwop_trace
    /\ lgDefault = Spec_duwop_info

\* a reset after a preset put the default back in force
C36_WitnessReset ==
    /\ lgCount = 2
    /\ lgLine = Line_Log_reset
    /\ lgHandler = lgDefault
    /\ lgReply.kind = "Done"

\* ------------------------------------------------------------------------
\* Scope of the registry lock
\* ------------------------------------------------------------------------
\* C37: a handler holds the read lock only for the lookup: no handler is
\* in a filesystem access (canonicalize, open, read) or in upstream I/O
\* while it holds the guard, so a waiting Reload never waits for such I/O.
C37_LockOnlyForLookup ==
    \A h \in 1..MaxHandlers :
        scPhase[h] \in {"canonicalize", "open", "read", "upstream"} => h \notin scReaders

\* what holds: the I/O of the returned future (open, read, upstream) runs
\* without the guard
FutureIoWithoutLock ==
    \A h \in 1..MaxHandlers :
        scPhase[h] \in {"open", "read", "upstream"} => h \notin scReaders

\* a Reload waits while one handler reads its file and another is in its
\* upstream exchange
FutureIoWithoutLock_Witness ==
    /\ scWriter = "held"
    /\ scPhase[1] = "read"
    /\ scPhase[2] = "upstream"

\* ------------------------------------------------------------------------
\* Reload requests on several connections
\* ------------------------------------------------------------------------
\* the connections that are between state.write() and the drop of the guard
InsideWriteLock == {c \in 1..MaxReloaders : rrPc[c] \in {"locked", "scanning", "scanned", "done"}}

\* C38: reloads on different connections are serialised by the write
\* lock: at most one of them is between acquiring the lock and releasing
\* it, so their scans never interleave, and once the lock is free the
\* registry is what the scan of the last reload to acquire the lock built.
C38_ReloadsSerialised ==
    /\ Cardinality(InsideWriteLock) <= 1
    /\ lockWriter = (InsideWriteLock # {})
    /\ (~lockWriter /\ rrLast # 0 /\ rrBuilt[rrLast].ok) =>
            /\ services = rrBuilt[rrLast].services
            /\ errors = rrBuilt[rrLast].errors

\* a second connection waits for the lock while the first scans; the
\* registry then holds what the second one's scan built, which differs
\* from what the first built
C38_Witness ==
    /\ ~lockWriter
    /\ rrLast = 2
    /\ rrBuilt[2].ok
    /\ rrBuilt[1].ok
    /\ rrBuilt[1].services # rrBuilt[2].services
    /\ services = rrBuilt[2].services
    /\ DOMAIN services # {}

\* one connection scans while the other has asked for the lock
C38_WitnessWaiting ==
    /\ rrPc[1] = "scanning"
    /\ rrPc[2] = "requested"

\* ------------------------------------------------------------------------
\* Configuration client
\* ------------------------------------------------------------------------
\* the filesystem change of a command cannot be made: the target of link or
\* proxy exists, or the file to delete is missing
ChangeFails(cmd, dir) ==
    IF cmd.op = "delete" THEN dir[cmd.name] = Absent ELSE dir[cmd.name] # Absent

\* the state directory holds the change the command asks for
DirHasChange(cmd, dir) ==
    IF cmd.op = "delete" THEN dir[cmd.name] = Absent
    ELSE IF cmd.op = "link" THEN dir[cmd.name].type = "dir" /\ dir[cmd.name].target = cmd.source
    ELSE dir[cmd.name].type = "file"

\* the registry holds the change the command asks for
RegistryHasChange(cmd, registry) ==
    IF cmd.op = "delete" THEN cmd.name.chars \notin DOMAIN registry
    ELSE /\ cmd.name.chars \in DOMAIN registry
         /\ registry[cmd.name.chars] =
                IF cmd.op = "link" THEN StaticFiles(cmd.source)
                ELSE ReverseProxy(LOCALHOST, cmd.port)

\* C39: link, proxy and delete change the state directory before they
\* send Reload; when the change fails (the target exists, the file to
\* delete is missing) no Reload is sent and the state directory is as it
\* was; when the command returns success the registry of the server
\* holds the change.
C39_ChangeThenReload ==
    /\ [][ctlSent' # ctlSent =>
            /\ stateDir # ctlBefore
            /\ DirHasChange(ctlCmd, stateDir)
            /\ stateDir' = stateDir]_vars
    /\ [][(ctlPc = "change" /\ ChangeFails(ctlCmd, stateDir)) =>
            /\ stateDir' = stateDir
            /\ ctlSent' = ctlSent
            /\ ctlPc' # "reload"]_vars
    /\ []((ctlPc = "idle" /\ ctlResult = "ok") => RegistryHasChange(ctlCmd, services))
    /\ []((ctlPc = "idle" /\ ctlResult = "err" /\ ChangeFails(ctlCmd, ctlBefore)) =>
            stateDir = ctlBefore)

\* proxy Blog 3000 returned success after link blog had: both are in the
\* registry
C39_Witness ==
    /\ ctlPc = "idle"
    /\ ctlResult = "ok"
    /\ ctlCount = 2
    /\ ctlSent = 2
    /\ ctlCmd = Command("proxy", File_Blog, "", FALSE, 3000, FALSE)
    /\ services[File_Blog.chars] = ReverseProxy(LOCALHOST, 3000)
    /\ services[File_blog.chars] = StaticFiles("/srv/blog")

\* proxy blog 80 was refused because blog exists: no Reload was sent for it
C39_WitnessRefused ==
    /\ ctlPc = "idle"
    /\ ctlResult = "err"
    /\ ctlCount = 2
    /\ ctlSent = 1
    /\ ctlCmd = Command("proxy", File_blog, "", FALSE, 80, FALSE)
    /\ stateDir[File_blog] = DirNode("/srv/blog")

\* delete of a missing file failed
C39_WitnessMissing ==
    /\ ctlPc = "idle"
    /\ ctlResult = "err"
    /\ ctlSent = 0
    /\ ctlCmd = Command("delete", File_blog, "", FALSE, 0, TRUE)

\* ------------------------------------------------------------------------
\* ReloadSsl without delivery
\* ------------------------------------------------------------------------
\* mpsc::channel::<()>(1), supervisor.rs:37
ChannelCapacity == 1

\* the step in which the session handles a ReloadSsl line
HandlesReloadSsl ==
    /\ sessWriting = NoResponse
    /\ Positions(sessWire, "\n") # {}
    /\ Request_parse(ReadLine(sessWire).line) = ParseOk(ReloadSsl)
    /\ sessWire' = ReadLine(sessWire).rest

\* the step in which a spawned send is polled
SendIsPolled == sslSpawned' = sslSpawned - 1

\* C40: ReloadSsl is answered OK in the step that spawns the send, before
\* and whatever the delivery; a send polled while there is no HTTPS
\* front-end or while the channel holds ChannelCapacity notifications
\* queues nothing, so no leaf is minted for it, and leaves the registry
\* and the session as they are.
C40_ReloadSslWithoutDelivery ==
    [][/\ HandlesReloadSsl =>
            /\ sessWriting' = Response_Ok(SslReplacementInitiated)
            /\ UNCHANGED <<sslChannel, tlsSlot, tlsPending, tlsMinted>>
       /\ (SendIsPolled /\ (~httpsEnabled \/ sslChannel >= ChannelCapacity)) =>
            /\ sslChannel' = sslChannel
            /\ UNCHANGED <<tlsSlot, tlsPending, tlsMinted, services, errors>>
            /\ UNCHANGED <<sessWire, sessLines, sessWriting, sessOut>>]_vars

\* what holds: the answer is OK before delivery, and with no HTTPS
\* front-end the send fails, nothing is queued and no leaf is minted
ReloadSslWithoutHttps ==
    [][/\ HandlesReloadSsl =>
            /\ sessWriting' = Response_Ok(SslReplacementInitiated)
            /\ UNCHANGED <<sslChannel, tlsSlot, tlsPending, tlsMinted>>
       /\ (SendIsPolled /\ ~httpsEnabled) =>
            /\ sslChannel' = sslChannel
            /\ sslSendErrors' = sslSendErrors + 1
            /\ UNCHANGED <<tlsSlot, tlsPending, tlsMinted, services, errors>>
            /\ UNCHANGED <<sessWire, sessLines, sessWriting, sessOut>>
       /\ ~httpsEnabled => tlsMinted' = 0 /\ tlsPending' = NoAcceptor]_vars

\* with no HTTPS front-end two ReloadSsl lines were answered OK and both
\* sends failed
ReloadSslWithoutHttps_Witness ==
    /\ ~httpsEnabled
    /\ sslSendErrors = 2
    /\ Len(sessOut) = 2
    /\ sessOut[1] = WireResponse(Response_Ok(SslReplacementInitiated))
    /\ sessOut[2] = WireResponse(Response_Ok(SslReplacementInitiated))
    /\ tlsMinted = 0

\* a second notification is queued while the first is still in the channel
SecondNotificationQueued ==
    /\ httpsEnabled
    /\ sslChannel = ChannelCapacity + 1

====
